---- MODULE Spec2Model ----
(***************************************************************************)
(* A model of the DiceMix Light protocol core: the run state machine       *)
(* (src/src/state/mod.rs) and the authenticated message channel            *)
(* (src/src/io.rs).                                                         *)
(***************************************************************************)
EXTENDS Integers, Sequences, FiniteSets, TLC

VARIABLES
    state,          \* RunStateMachine.state
    visited,        \* history: the states the run has been in, in order
    rsm_call,       \* history: the last call on the run state machine
    session_id,     \* ReadAuthenticatedPayloads.session_id
    ltvks,          \* ReadAuthenticatedPayloads.ltvks
    sequence_num,   \* ReadAuthenticatedPayloads.sequence_num
    inner_item,     \* history: what inner.poll() returned to the last poll
    out,            \* history: what the last poll returned
    chan_op,        \* history: the last operation on the channel
    redelivery,     \* history: outcome of the poll before, when the last
                    \* poll was handed the same item again
    advances,       \* history: the calls of advance_round so far
    debug_assertions, \* the build: cfg!(debug_assertions)
    count,          \* RunStateMachine.count
    kepks,          \* RunStateMachine.kepks
    received,       \* RunStateMachine.received
    histories,      \* RunStateMachine.histories
    apply_item,     \* history: the item of the last apply_incoming_message
    next_kepks,     \* Execution.next_kepks
    roster,         \* Execution: the peer indices not excluded so far
    session,        \* Execution: how the session stands
    exec_call,      \* history: the last step of Execution
    history,        \* a RunHistory on its own
    hist_call,      \* history: the last record_payload on it
    fp_call,        \* history: the last operation on field elements
    fp_out,         \* history: what it returned
    fp_panic,       \* history: whether it panicked instead of returning
    xor_call,       \* history: the last operation on XOR vectors
    xor_out,        \* history: what it gave
    codec_buf,      \* the BytesMut the codec works on
    codec_sent,     \* history: the messages encoded and not yet decoded
    codec_fed,      \* history: the buffer was filled by the network
    codec_call,     \* history: the last call on the codec
    codec_out,      \* history: what it returned
    solver_call,    \* history: the last call of Solver::solve
    solver_out,     \* history: what it returned
    next_kepk,      \* Peer.next_kepk
    peer_log,       \* history: the calls on the Peer that completed
    peer_call,      \* history: the last call on the Peer
    rng,            \* two DiceMixRng: the ChaChaRng of each
    rng_round,      \* history: the round each was prepared for last
    rng_calls,      \* history: the calls on each since then
    rng_outs        \* history: what these calls produced

rsmvars  == <<state, visited, rsm_call>>
chanvars == <<session_id, ltvks, sequence_num, inner_item, out, chan_op, redelivery,
              advances>>
runvars  == <<debug_assertions, count, kepks, received, histories, apply_item>>
execvars == <<next_kepks, roster, session, exec_call>>
histvars == <<history, hist_call>>
fpvars   == <<fp_call, fp_out, fp_panic>>
xorvars  == <<xor_call, xor_out>>
codecvars == <<codec_buf, codec_sent, codec_fed, codec_call, codec_out>>
solvervars == <<solver_call, solver_out>>
peervars == <<next_kepk, peer_log, peer_call>>
rngvars  == <<rng, rng_round, rng_calls, rng_outs>>
vars     == <<rsmvars, chanvars, runvars, execvars, histvars, fpvars, xorvars, codecvars, solvervars, peervars, rngvars>>

----------------------------------------------------------------------------
(* Run state machine: src/src/state/mod.rs                                 *)

Exponential == "Exponential"
Main        == "Main"
NoPhase     == "-"

DcProcess(phase) == [tag |-> "DcProcess", phase |-> phase]
DcReveal(phase)  == [tag |-> "DcReveal",  phase |-> phase]
Blame            == [tag |-> "Blame",     phase |-> NoPhase]
Confirm          == [tag |-> "Confirm",   phase |-> NoPhase]

DcPhase  == {Exponential, Main}
RunState == {DcProcess(p) : p \in DcPhase} \cup {DcReveal(p) : p \in DcPhase}
              \cup {Blame, Confirm}

\* A discriminant that numbers the main phase before the exponential reveal.
discriminant_swapped(x) ==
    CASE x = DcProcess(Exponential) -> 0
      [] x = DcReveal(Exponential)  -> 2
      [] x = DcProcess(Main)        -> 1
      [] x = DcReveal(Main)         -> 3
      [] x = Blame                  -> 4
      [] x = Confirm                -> 5

discriminant(x) ==
    CASE x = DcProcess(Exponential) -> 0
      [] x = DcReveal(Exponential)  -> 1
      [] x = DcProcess(Main)        -> 2
      [] x = DcReveal(Main)         -> 3
      [] x = Blame                  -> 4
      [] x = Confirm                -> 5

\* u32::partial_cmp on the discriminants
cmp_u32(a, b) == IF a < b THEN "Less" ELSE IF a = b THEN "Equal" ELSE "Greater"

\* partial_cmp without the two arms that make Blame and Confirm incomparable.
partial_cmp_total(self, other) ==
    cmp_u32(discriminant(self), discriminant(other))

partial_cmp(self, other) ==
    IF self = Blame /\ other = Confirm THEN "None"
    ELSE IF self = Confirm /\ other = Blame THEN "None"
    ELSE cmp_u32(discriminant(self), discriminant(other))

\* `<=` in place of `<`.
lt_or_equal(a, b) == partial_cmp(a, b) \in {"Less", "Equal"}

\* PartialOrd::lt, the `<` of the assertion in set_state
lt(a, b) == partial_cmp(a, b) = "Less"

NoArg == [tag |-> "-", phase |-> NoPhase]

RsmAlive == rsm_call.outcome # "panic"

\* RunStateMachine::set_state; a failed assertion panics before the assignment
set_state(s) ==
    /\ RsmAlive
    /\ IF lt(state, s)
       THEN /\ state' = s
            /\ visited' = Append(visited, s)
            /\ rsm_call' = [op |-> "set_state", arg |-> s, outcome |-> "ok"]
       ELSE /\ state' = state
            /\ visited' = visited
            /\ rsm_call' = [op |-> "set_state", arg |-> s, outcome |-> "panic"]
    /\ UNCHANGED <<chanvars, runvars, execvars, histvars, fpvars, xorvars, codecvars, solvervars, peervars, rngvars>>

SetState == \E s \in RunState : set_state(s)

----------------------------------------------------------------------------
(* Authenticated channel: src/src/io.rs                                    *)

\* Bounds of the model
NumPeers == 2       \* length of ltvks; peer indices 0..NumPeers-1 have a key
MaxSeq   == 1       \* cap of sequence_num and of the header sequence numbers
MsgLen   == 8       \* length of the message part of a full frame

COMPACT_SIGNATURE_SIZE == 64

SessionIds  == {0, 1}
PeerIndices == 0 .. NumPeers          \* NumPeers itself has no key in ltvks
Signers     == 0 .. (NumPeers - 1)    \* owners of the long-term keys
Payloads    == {"DcExponential", "Reveal"}
IoErrors    == {"ConnectionReset", "BrokenPipe"}

NoPeer == -1
NoKey  == -1
NoErr  == "-"
NoPayload == "-"

\* messages::Message as io.rs uses it: a header and a payload
Message(sid, seq, idx, pay) ==
    [session_id |-> sid, sequence_num |-> seq, peer_index |-> idx, payload |-> pay]
NoMessage == Message(-1, -1, NoPeer, NoPayload)
Messages ==
    {Message(sid, seq, idx, pay) :
        sid \in SessionIds, seq \in 0 .. MaxSeq, idx \in PeerIndices, pay \in Payloads}

\* The bytes of the message part of a frame: the bincode encoding of a
\* message, or bytes that are no encoding of any message.
Serialize(m)  == [wellformed |-> TRUE, msg |-> m]
GarbageBytes  == [wellformed |-> FALSE, msg |-> NoMessage]
AllMsgBytes   == {GarbageBytes} \cup {Serialize(m) : m \in Messages}

\* bincode::deserialize
deserialize(b) == IF b.wellformed THEN [ok |-> TRUE, msg |-> b.msg]
                  ELSE [ok |-> FALSE, msg |-> NoMessage]

\* What a hasher has absorbed: the number of copies of MAGIC_MESSAGE_PREFIX
\* and then the parts of the frame.  The hash is taken to be collision free,
\* so a digest is identified with what was absorbed.  The signature part is
\* named, not spelled out, because a signature over a whole frame lies
\* inside the bytes it signs.
MsgPart(b) == [part |-> "msg", bytes |-> b]
SigPart    == [part |-> "sig", bytes |-> GarbageBytes]

\* Blake2s::default() followed by the loop `for _ in 0..1`
new_prefixed_hasher == [magic |-> 1, data |-> <<>>]

\* hasher.input(..) of a list of frame parts
input(hasher, parts) == [magic |-> hasher.magic, data |-> hasher.data \o parts]

\* hasher.result(), as secp256k1::Message::from_slice takes it
result(hasher) == hasher

NoDigest == [magic |-> 0, data |-> <<>>]

\* The bytes of the signature part of a frame: a compact signature made with
\* signer's long-term key over the digest `signed`, or bytes that are no
\* signature.
Signature(k, d) == [wellformed |-> TRUE, signer |-> k, signed |-> d]
GarbageSig      == [wellformed |-> FALSE, signer |-> NoKey, signed |-> NoDigest]

\* secp256k1::Signature::from_compact
from_compact(b) == b.wellformed

\* Secp256k1::verify with an unforgeable signature scheme: the verification
\* key of peer k is written k, as its signing key is.
verify(digest, sig, vk) == sig.signer = vk /\ sig.signed = digest

\* A frame as the inner stream delivers it
Frame(len, mb, sb) == [len |-> len, msg |-> mb, sig |-> sb]
NoFrame == Frame(-1, GarbageBytes, GarbageSig)

\* bytes.split_at(split_pos): the message part and the signature part
split_at(bytes) == <<bytes.msg, bytes.sig>>

\* The parts of the whole frame, in order
WholeFrame(bytes) == <<MsgPart(bytes.msg), SigPart>>
\* The parts of the frame without its trailing signature
SignedRange(bytes) == <<MsgPart(bytes.msg)>>

\* The digests a signature in a frame with message bytes mb may be over:
\* the prefix and the message bytes, the prefix and the whole frame, or the
\* prefix twice and the message bytes.
DigestsOf(mb) ==
    {[magic |-> 1, data |-> <<MsgPart(mb)>>],
     [magic |-> 1, data |-> <<MsgPart(mb), SigPart>>],
     [magic |-> 2, data |-> <<MsgPart(mb)>>]}

\* The bytes of another message: the same header with the other payload
OtherBytes(mb) ==
    Serialize([mb.msg EXCEPT !.payload = CHOOSE p \in Payloads : p # mb.msg.payload])

\* The next peer index, and the next owner of a key, after i
NextIndex(i)  == (i + 1) % (NumPeers + 1)
NextSigner(i) == (i + 1) % NumPeers

\* The signature parts of the frames with message bytes mb delivered under
\* peer index i: no signature, signatures of the peer with index i (of
\* another peer for the index without a key) and of the peer after over the
\* digests of mb, and a signature taken from a frame with another message.
SigsFor(i, mb) ==
    {GarbageSig}
      \cup {Signature(k, d) : k \in {i % NumPeers, NextSigner(i)}, d \in DigestsOf(mb)}
      \cup {Signature(i % NumPeers,
                      [magic |-> 1, data |-> <<MsgPart(OtherBytes(mb)), SigPart>>])}

\* The messages of the frames delivered under peer index i: every session
\* id, sequence number and payload, under the peer index i or the next one.
MessagesFor(i) == {m \in Messages : m.peer_index \in {i, NextIndex(i)}}

ShortFrames == {Frame(l, GarbageBytes, GarbageSig) : l \in {0, COMPACT_SIGNATURE_SIZE - 1}}
UnparsedFrames ==
    {Frame(COMPACT_SIGNATURE_SIZE, GarbageBytes, GarbageSig),
     Frame(COMPACT_SIGNATURE_SIZE, GarbageBytes, Signature(0, new_prefixed_hasher))}
FullFrames(i) ==
    UNION {{Frame(COMPACT_SIGNATURE_SIZE + MsgLen, Serialize(m), sb) :
               sb \in SigsFor(i, Serialize(m))} : m \in MessagesFor(i)}
Frames(i) == ShortFrames \cup UnparsedFrames \cup FullFrames(i)

\* What inner.poll() returns
Inner(kind, idx, bytes, err) == [kind |-> kind, peer |-> idx, bytes |-> bytes, err |-> err]
InnerNotReady   == Inner("NotReady", NoPeer, NoFrame, NoErr)
InnerEnd        == Inner("None", NoPeer, NoFrame, NoErr)
InnerErr(e)     == Inner("Err", NoPeer, NoFrame, e)
InnerItem(i, b) == Inner("Item", i, b, NoErr)
NotPolled       == Inner("NotPolled", NoPeer, NoFrame, NoErr)
InnerResults ==
    {InnerNotReady, InnerEnd} \cup {InnerErr(e) : e \in IoErrors}
      \cup UNION {{InnerItem(i, b) : b \in Frames(i)} : i \in PeerIndices}

\* What poll returns
Poll(kind, idx, valid, pay, err) ==
    [kind |-> kind, peer |-> idx, valid |-> valid, payload |-> pay, err |-> err]
NotReady      == Poll("NotReady", NoPeer, FALSE, NoPayload, NoErr)
ReadyNone     == Poll("None", NoPeer, FALSE, NoPayload, NoErr)
Err(e)        == Poll("Err", NoPeer, FALSE, NoPayload, e)
Valid(i, pay) == Poll("Item", i, TRUE, pay, NoErr)
Invalid(i)    == Poll("Item", i, FALSE, NoPayload, NoErr)
Panic         == Poll("Panic", NoPeer, FALSE, NoPayload, NoErr)
NoOut         == Poll("-", NoPeer, FALSE, NoPayload, NoErr)

\* The check `hdr.session_id != self.session_id`
check_session_id(hdr, sid) == hdr.session_id = sid

\* A channel that takes any sequence number.
check_sequence_num_any(hdr, seq) == TRUE

\* The check `hdr.sequence_num != self.sequence_num`
check_sequence_num(hdr, seq) == hdr.sequence_num = seq

\* The check `hdr.peer_index != peer_index`
check_peer_index(hdr, peer_index) == hdr.peer_index = peer_index

\* The arm Some((peer_index, bytes)) of poll
authenticate(peer_index, bytes, sid, seq, keys) ==
    LET invalid == Invalid(peer_index) IN
    IF bytes.len < COMPACT_SIGNATURE_SIZE THEN invalid
    ELSE
      LET parts      == split_at(bytes)
          msg_bytes  == parts[1]
          sig_bytes  == parts[2]
          sig_result == from_compact(sig_bytes)
          msg_result == deserialize(msg_bytes)
          hasher     == input(new_prefixed_hasher, WholeFrame(bytes))
      IN
      IF ~msg_result.ok THEN invalid
      ELSE IF ~sig_result THEN invalid
      ELSE
        LET hdr == msg_result.msg
            pay == msg_result.msg.payload
        IN
        IF ~check_session_id(hdr, sid) THEN invalid
        ELSE IF ~check_sequence_num(hdr, seq) THEN invalid
        ELSE IF ~check_peer_index(hdr, peer_index) THEN invalid
        ELSE
          LET digest == result(hasher) IN
          IF peer_index \notin DOMAIN keys THEN Panic  \* index out of bounds
          ELSE IF verify(digest, sig_bytes, keys[peer_index])
               THEN Valid(peer_index, pay)
               ELSE invalid

\* A channel that reports a transport error as the end of the stream.
try_ready_swallow(r) ==
    CASE r.kind = "Err"      -> ReadyNone
      [] r.kind = "NotReady" -> NotReady
      [] r.kind = "None"     -> ReadyNone

\* try_ready!(self.inner.poll()) and the arm None of poll
try_ready(r) ==
    CASE r.kind = "Err"      -> Err(r.err)
      [] r.kind = "NotReady" -> NotReady
      [] r.kind = "None"     -> ReadyNone

\* <ReadAuthenticatedPayloads as Stream>::poll, its return value
poll(r, sid, seq, keys) ==
    IF r.kind = "Item" THEN authenticate(r.peer, r.bytes, sid, seq, keys)
    ELSE try_ready(r)

\* A poll that counts the messages it accepts.
sequence_num_after_poll_counting(seq, o) ==
    IF o.kind = "Item" /\ o.valid /\ seq < MaxSeq THEN seq + 1 ELSE seq

\* A poll that counts the messages it rejects.
sequence_num_after_poll_strikes(seq, o) ==
    IF o.kind = "Item" /\ ~o.valid /\ seq < MaxSeq THEN seq + 1 ELSE seq

\* poll has no assignment to self.sequence_num
sequence_num_after_poll(seq, o) == seq

ChanAlive == out.kind # "Panic"

NoRedelivery == [is |-> FALSE, first |-> NoOut, advanced |-> FALSE]

\* ReadAuthenticatedPayloads::new
ChanInit ==
    /\ session_id = 0
    /\ ltvks = [i \in Signers |-> i]
    /\ sequence_num = 0
    /\ inner_item = NotPolled
    /\ out = NoOut
    /\ chan_op = "new"
    /\ redelivery = NoRedelivery
    /\ advances = 0

\* An advance_round that leaves the sequence number as it is.
sequence_num_after_advance_round_kept(seq) == seq

\* `self.sequence_num += 1`
sequence_num_after_advance_round(seq) == seq + 1

\* ReadAuthenticatedPayloads::advance_round
advance_round ==
    /\ ChanAlive
    /\ sequence_num < MaxSeq
    /\ sequence_num' = sequence_num_after_advance_round(sequence_num)
    /\ advances' = advances + 1
    /\ chan_op' = "advance_round"
    /\ UNCHANGED <<session_id, ltvks, inner_item, out, redelivery>>
    /\ UNCHANGED <<rsmvars, runvars, execvars, histvars, fpvars, xorvars, codecvars, solvervars, peervars, rngvars>>

\* One call of poll, the inner stream returning r
poll_step(r) ==
    /\ ChanAlive
    /\ LET o == poll(r, session_id, sequence_num, ltvks) IN
         /\ out' = o
         /\ sequence_num' = sequence_num_after_poll(sequence_num, o)
    /\ inner_item' = r
    /\ chan_op' = "poll"
    /\ redelivery' =
         IF r.kind = "Item" /\ r = inner_item
         THEN [is |-> TRUE, first |-> out, advanced |-> (chan_op = "advance_round")]
         ELSE NoRedelivery
    /\ UNCHANGED <<session_id, ltvks, advances>>
    /\ UNCHANGED <<rsmvars, runvars, execvars, histvars, fpvars, xorvars, codecvars, solvervars, peervars, rngvars>>

PollStream == ChanAlive /\ \E r \in InnerResults : poll_step(r)

----------------------------------------------------------------------------
(* Payloads and the history of a peer: src/src/messages.rs,                *)
(* src/src/state/history.rs                                                *)

\* Bounds of the model
MaxRevealIndex == 1     \* peer indices 0..MaxRevealIndex are named in a Reveal
MaxRevealLen   == 2     \* longest key list of a Reveal

None == "None"

DcExponentialValues == {"exp1", "exp2"}
DcXorValues         == {"xor1"}
SymmetricKeys       == {"key1", "key2"}
RevealIndices       == 0 .. MaxRevealIndex

\* messages::Payload
Payload(variant, data, keys) == [variant |-> variant, data |-> data, keys |-> keys]
KeyExchange      == Payload("KeyExchange", None, <<>>)
DcExponential(d) == Payload("DcExponential", d, <<>>)
DcXor(d)         == Payload("DcXor", d, <<>>)
BlamePayload     == Payload("Blame", None, <<>>)
ConfirmPayload   == Payload("Confirm", None, <<>>)
Reveal(keys)     == Payload("Reveal", None, keys)

\* The key lists of the Reveal payloads: pairs (peer index, key)
RevealPairs == RevealIndices \X SymmetricKeys
RevealLists == UNION {[1 .. n -> RevealPairs] : n \in 1 .. MaxRevealLen}

RunPayloads ==
    {KeyExchange, BlamePayload, ConfirmPayload}
      \cup {DcExponential(d) : d \in DcExponentialValues}
      \cup {DcXor(d) : d \in DcXorValues}
      \cup {Reveal(l) : l \in RevealLists}

\* RunHistory::new: nothing recorded, no key revealed
RunHistory_new(num_peers) ==
    [dc_exponential |-> None,
     dc_xor |-> None,
     dc_add_secp256k1_scalar |-> None,
     revealed_symmetric_keys |-> [i \in RevealIndices |-> None]]

is_empty(map) == \A i \in DOMAIN map : map[i] = None

\* consistent without the ordering of the contributions.
consistent_keys_only(h) ==
    ~(h.dc_exponential # None /\ is_empty(h.revealed_symmetric_keys))

\* RunHistory::consistent
consistent(h) ==
    IF h.dc_exponential # None /\ is_empty(h.revealed_symmetric_keys) THEN FALSE
    ELSE
      LET e == h.dc_exponential # None
          x == h.dc_xor # None
          a == h.dc_add_secp256k1_scalar # None
      IN CASE ~x /\ ~a -> TRUE
           [] e /\ x   -> TRUE
           [] OTHER    -> FALSE

\* A loop that takes the key of a peer a second time.
RECURSIVE insert_keys_unchecked(_, _)
insert_keys_unchecked(map, keys) ==
    IF keys = <<>> THEN [map |-> map, ok |-> TRUE]
    ELSE insert_keys_unchecked([map EXCEPT ![keys[1][1]] = keys[1][2]], Tail(keys))

\* The loop over the keys of a Reveal: VecMap::insert stores the key and
\* returns the one it replaces; the assertion on it ends the loop.
RECURSIVE insert_keys(_, _)
insert_keys(map, keys) ==
    IF keys = <<>> THEN [map |-> map, ok |-> TRUE]
    ELSE
      LET i      == keys[1][1]
          k      == keys[1][2]
          was    == map[i]
          stored == [map EXCEPT ![i] = k]
      IN IF was = None THEN insert_keys(stored, Tail(keys))
         ELSE [map |-> stored, ok |-> FALSE]

\* RunHistory::record_payload: the history as the call leaves it and
\* whether the call completes (no assertion fails)
record_payload(h, payload) ==
    CASE payload.variant = "DcExponential" ->
           LET h1 == [h EXCEPT !.dc_exponential = payload.data]
           IN [h |-> h1, ok |-> consistent(h1)]
      [] payload.variant = "DcXor" ->
           LET h1 == [h EXCEPT !.dc_xor = payload.data]
           IN [h |-> h1, ok |-> consistent(h1)]
      [] payload.variant = "Reveal" ->
           LET r  == insert_keys(h.revealed_symmetric_keys, payload.keys)
               h1 == [h EXCEPT !.revealed_symmetric_keys = r.map]
           IN [h |-> h1, ok |-> r.ok /\ consistent(h1)]
      [] OTHER -> [h |-> h, ok |-> consistent(h)]

NoCall == [payload |-> KeyExchange, outcome |-> "-"]

HistAlive == hist_call.outcome # "panic"

\* A RunHistory as RunHistory::new returns it
HistInit ==
    /\ history = RunHistory_new(MaxRevealIndex + 1)
    /\ hist_call = NoCall

\* One call of record_payload on the history
record(payload) ==
    /\ HistAlive
    /\ LET r == record_payload(history, payload) IN
         /\ history' = r.h
         /\ hist_call' = [payload |-> payload,
                          outcome |-> IF r.ok THEN "ok" ELSE "panic"]
    /\ UNCHANGED <<rsmvars, chanvars, runvars, execvars, fpvars, xorvars, codecvars, solvervars, peervars, rngvars>>

RecordPayload == HistAlive /\ \E payload \in RunPayloads : record(payload)

----------------------------------------------------------------------------
(* The run and the execution: src/src/state/mod.rs                         *)

\* Bounds of the model
NumRunPeers == 3    \* length of the roster Execution::new is given
MaxCount    == 1    \* largest run counter of a run made on its own

RunPeers == 0 .. (NumRunPeers - 1)
Kepk     == "kepk"

\* Option<RunHistory>
Some(h)   == [some |-> TRUE, v |-> h]
NoHistory == [some |-> FALSE, v |-> RunHistory_new(0)]

\* unimplemented!()
unimplemented == "panic"

\* RunStateMachine::consistent
rsm_consistent == unimplemented

\* new_peervec that gives every peer an entry.
new_peervec_all(template, initial) ==
    [i \in DOMAIN template |-> Some(initial)]

\* new_peervec in RunStateMachine::new
new_peervec(template, initial) ==
    [i \in DOMAIN template |->
        IF template[i] = None THEN NoHistory ELSE Some(initial)]

\* RunStateMachine::new that starts the run in the main phase.
new_in_main(cnt, keps, debug) ==
    [count |-> cnt,
     state |-> DcProcess(Main),
     received |-> {},
     histories |-> new_peervec(keps, RunHistory_new(Cardinality(DOMAIN keps))),
     kepks |-> keps,
     outcome |-> IF debug THEN rsm_consistent ELSE "ok"]

\* RunStateMachine::new: the fields of the new run and whether the call
\* returns; debug_assert!(new.consistent()) is compiled into debug builds
new(cnt, keps, debug) ==
    [count |-> cnt,
     state |-> DcProcess(Exponential),
     received |-> {},
     histories |-> new_peervec(keps, RunHistory_new(Cardinality(DOMAIN keps))),
     kepks |-> keps,
     outcome |-> IF debug THEN rsm_consistent ELSE "ok"]

\* (PeerIndex, IncomingPayload)
Item(i, valid, pay) == [peer |-> i, valid |-> valid, payload |-> pay]
NoRunPayload == Payload("-", None, <<>>)
InvalidItem(i)  == Item(i, FALSE, NoRunPayload)
ValidItem(i, p) == Item(i, TRUE, p)
NoItem   == Item(NoPeer, FALSE, NoRunPayload)
RunItems ==
    {InvalidItem(i) : i \in 0 .. NumRunPeers}
      \cup {ValidItem(i, p) : i \in 0 .. NumRunPeers, p \in RunPayloads}

\* The arm of the match in apply_incoming_message that takes the item
match_arm(st, incoming) ==
    CASE st = DcProcess(Exponential) /\ incoming.valid
            /\ incoming.payload.variant = "DcExponential" -> "DcExponential"
      [] st = DcProcess(Main) /\ incoming.valid
            /\ incoming.payload.variant = "DcMain"        -> "DcMain"
      [] st.tag = "DcReveal" /\ incoming.valid
            /\ incoming.payload.variant = "Reveal"        -> "Reveal"
      [] st = Blame /\ incoming.valid
            /\ incoming.payload.variant = "Blame"         -> "Blame"
      [] st = Confirm /\ incoming.valid
            /\ incoming.payload.variant = "Confirm"       -> "Confirm"
      [] OTHER                                            -> "_"

\* The body of each arm
arm_body(arm) == unimplemented

\* RunStateMachine::apply_incoming_message on a run with the fields m: the
\* fields as the call leaves them and how it ends
apply_incoming_message(m, incoming, debug) ==
    LET peer_index      == incoming.peer
        first_from_peer == peer_index \notin m.received
        rec             == m.received \cup {peer_index}
        left(hs, how)   == [received |-> rec, histories |-> hs, outcome |-> how]
    IN
    IF debug /\ ~first_from_peer THEN left(m.histories, "panic")
    ELSE IF incoming.valid /\ peer_index \notin DOMAIN m.histories
      THEN left(m.histories, "panic")             \* index out of bounds
    ELSE IF incoming.valid /\ ~m.histories[peer_index].some
      THEN left(m.histories, "panic")             \* unwrap on None
    ELSE IF incoming.valid
      THEN LET r  == record_payload(m.histories[peer_index].v, incoming.payload)
               hs == [m.histories EXCEPT ![peer_index] = Some(r.h)]
           IN IF ~r.ok THEN left(hs, "panic")
              ELSE left(hs, arm_body(match_arm(m.state, incoming)))
    ELSE left(m.histories, arm_body(match_arm(m.state, incoming)))

RunFields == [state |-> state, received |-> received, histories |-> histories]

\* One call of apply_incoming_message on the run
apply(incoming) ==
    /\ RsmAlive
    /\ LET r == apply_incoming_message(RunFields, incoming, debug_assertions) IN
         /\ received' = r.received
         /\ histories' = r.histories
         /\ rsm_call' = [op |-> "apply_incoming_message", arg |-> NoArg,
                         outcome |-> r.outcome]
    /\ apply_item' = incoming
    /\ UNCHANGED <<state, visited, debug_assertions, count, kepks>>
    /\ UNCHANGED <<chanvars, execvars, histvars, fpvars, xorvars, codecvars, solvervars, peervars, rngvars>>

ApplyIncoming == RsmAlive /\ \E incoming \in RunItems : apply(incoming)

\* The variables of the run become the fields of a new run
BecomeNew(n) ==
    /\ state' = n.state
    /\ visited' = <<n.state>>
    /\ rsm_call' = [op |-> "new", arg |-> NoArg, outcome |-> n.outcome]
    /\ count' = n.count
    /\ kepks' = n.kepks
    /\ received' = n.received
    /\ histories' = n.histories
    /\ apply_item' = NoItem

\* Nothing has been called on the run since it was made
JustMade == rsm_call.op = "new"

\* RunStateMachine::new called on its own, in a release build or in a debug
\* build, in place of the run that Execution::new made
new_run(cnt, keps, debug) ==
    /\ JustMade
    /\ debug_assertions' = debug
    /\ BecomeNew(new(cnt, keps, debug))
    /\ UNCHANGED <<chanvars, execvars, histvars, fpvars, xorvars, codecvars, solvervars, peervars, rngvars>>

NewRun ==
    JustMade /\ \E cnt \in 0 .. MaxCount, keps \in [RunPeers -> {None, Kepk}],
                    debug \in BOOLEAN : new_run(cnt, keps, debug)

NoStep == [op |-> "new", peer |-> NoPeer]

\* Execution::new, returning (a release build; what a debug build makes of
\* new is a step of NewRun): the first run has the counter 0 and a key of
\* every peer
RsmInit ==
    /\ debug_assertions = FALSE
    /\ LET n == new(0, [i \in RunPeers |-> Kepk], debug_assertions) IN
         /\ state = n.state
         /\ visited = <<n.state>>
         /\ rsm_call = [op |-> "new", arg |-> NoArg, outcome |-> n.outcome]
         /\ count = n.count
         /\ kepks = n.kepks
         /\ received = n.received
         /\ histories = n.histories
         /\ session = IF n.outcome = "ok" THEN "running" ELSE "panic"
    /\ apply_item = NoItem
    /\ next_kepks = [i \in RunPeers |-> None]
    /\ roster = RunPeers
    /\ exec_call = NoStep

\* The fewest peers a run is started with
MinPeers == 2

\* The keys of the next run: those of the peers left in the roster
KepksOf(left) == [i \in RunPeers |-> IF i \in left THEN Kepk ELSE None]

\* An execution that starts a new run whatever is left of the roster.
drive_exclude_regardless(p) ==
    /\ session = "running" /\ RsmAlive /\ state = Blame
    /\ p \in roster
    /\ roster' = roster \ {p}
    /\ exec_call' = [op |-> "exclude", peer |-> p]
    /\ BecomeNew(new(count + 1, KepksOf(roster \ {p}), debug_assertions))
    /\ UNCHANGED <<session, next_kepks, debug_assertions>>
    /\ UNCHANGED <<chanvars, histvars, fpvars, xorvars, codecvars, solvervars, peervars, rngvars>>

\* Execution, the run in Blame signalling the exclusion of peer p: p leaves
\* the roster and the run is discarded; a new run is made over the peers
\* left, or the session fails when fewer than MinPeers are left.
drive_exclude(p) ==
    /\ session = "running" /\ RsmAlive /\ state = Blame
    /\ p \in roster
    /\ roster' = roster \ {p}
    /\ exec_call' = [op |-> "exclude", peer |-> p]
    /\ IF Cardinality(roster \ {p}) < MinPeers
       THEN /\ session' = "InsufficientParticipants"
            /\ UNCHANGED <<rsmvars, runvars>>
       ELSE /\ BecomeNew(new(count + 1, KepksOf(roster \ {p}), debug_assertions))
            /\ UNCHANGED <<session, debug_assertions>>
    /\ UNCHANGED next_kepks
    /\ UNCHANGED <<chanvars, histvars, fpvars, xorvars, codecvars, solvervars, peervars, rngvars>>

DriveExclude == \E p \in RunPeers : drive_exclude(p)

\* Execution, the run having reached Confirm: the session ends successfully
DriveConfirm ==
    /\ session = "running" /\ RsmAlive /\ state = Confirm
    /\ session' = "Success"
    /\ exec_call' = [op |-> "confirm", peer |-> NoPeer]
    /\ UNCHANGED <<next_kepks, roster>>
    /\ UNCHANGED <<rsmvars, runvars, chanvars, histvars, fpvars, xorvars, codecvars, solvervars, peervars, rngvars>>

\* Execution feeding one item into the current run
DriveItem == session = "running" /\ ApplyIncoming

\* The current run moving to a later state
DriveState == session = "running" /\ SetState

----------------------------------------------------------------------------
(* The field: src/src/field.rs                                             *)
(* The code works on 128-bit words of two 64-bit limbs and P = 2^127 - 1.  *)
(* The model keeps that shape at a smaller width: a limb has LimbBits      *)
(* bits, a word two limbs, and P is the word without its top bit.          *)

\* Bound of the model
LimbBits == 3       \* bits of a limb (64 in the code)

Pow2(n)  == 2 ^ n
WordBits == 2 * LimbBits
LimbSize == Pow2(LimbBits)
WordSize == Pow2(WordBits)

\* const P
P == Pow2(WordBits - 1) - 1

\* Arithmetic of the word: the value that is kept and whether bits are lost
Wrap(x)  == x % WordSize
Lost(x)  == x < 0 \/ x >= WordSize

\* x >> n, x << n and x & P on a word
shr(x, n) == x \div Pow2(n)
shl(x, n) == Wrap(x * Pow2(n))
and_P(x)  == x % Pow2(WordBits - 1)

\* as_limbs
as_limbs(x) == <<shr(x, LimbBits) % LimbSize, x % LimbSize>>

\* An Fp operation's result: the internal representation v, whether an
\* intermediate value lost bits other than the carry taken by
\* overflowing_add, that carry, and the value after the first reduction
FpResult(v, lost, carry, first) ==
    [v |-> v, lost |-> lost, carry |-> carry, first |-> first]

\* impl Reduce for u128: reduce_once
reduce_once(x) == and_P(x) + shr(x, WordBits - 1)

\* reduce_once of a pair that leaves out the top bit of the low word.
reduce_once_pair_high_only(h, l) ==
    LET shift == shl(h, 1)
    IN [v |-> Wrap(and_P(l) + shift),
        lost |-> Lost(h * 2) \/ Lost(and_P(l) + shift)]

\* impl Reduce for (u128, u128): reduce_once
reduce_once_pair(h, l) ==
    LET shift == shl(h, 1) + shr(l, WordBits - 1)   \* the bits are disjoint
    IN [v |-> Wrap(and_P(l) + shift),
        lost |-> Lost(h * 2) \/ Lost(and_P(l) + shift)]

\* Neg that negates the word and drops its top bit.
neg_twos_complement(a) ==
    FpResult(and_P(Wrap(WordSize - a)), Lost(WordSize - a), FALSE,
             and_P(Wrap(WordSize - a)))

\* impl Neg for Fp
neg(a) == FpResult(Wrap(P - a), Lost(P - a), FALSE, Wrap(P - a))

\* impl Add for Fp
add(a, b) ==
    LET sum == a + b
        red == reduce_once(Wrap(sum))
    IN FpResult(Wrap(red), Lost(sum) \/ Lost(red), FALSE, Wrap(red))

\* impl Sub for Fp
sub(a, b) ==
    LET n == neg(b)
        s == add(a, n.v)
    IN FpResult(s.v, n.lost \/ s.lost, FALSE, s.first)

\* Mul that reduces once.
mul_single_reduction(a, b) ==
    LET sh == as_limbs(a)[1]
        sl == as_limbs(a)[2]
        oh == as_limbs(b)[1]
        ol == as_limbs(b)[2]
        m  == Wrap(sh * ol + oh * sl)
        mh == as_limbs(m)[1]
        ml == as_limbs(m)[2]
        low   == sl * ol + shl(ml, LimbBits)
        rl    == Wrap(low)
        carry == Lost(low)
        rh    == Wrap(sh * oh + mh + (IF carry THEN 1 ELSE 0))
        first == reduce_once_pair(rh, rl)
    IN FpResult(first.v,
                \/ Lost(sh * ol + oh * sl) \/ Lost(sl * ol) \/ Lost(ml * LimbSize)
                \/ Lost(sh * oh + mh + (IF carry THEN 1 ELSE 0))
                \/ first.lost,
                carry, first.v)

\* impl Mul for Fp
mul(a, b) ==
    LET sh == as_limbs(a)[1]
        sl == as_limbs(a)[2]
        oh == as_limbs(b)[1]
        ol == as_limbs(b)[2]
        m  == Wrap(sh * ol + oh * sl)
        mh == as_limbs(m)[1]
        ml == as_limbs(m)[2]
        low   == sl * ol + shl(ml, LimbBits)
        rl    == Wrap(low)
        carry == Lost(low)
        rh    == Wrap(sh * oh + mh + (IF carry THEN 1 ELSE 0))
        first == reduce_once_pair(rh, rl)
        red   == reduce_once(first.v)
    IN FpResult(Wrap(red),
                \/ Lost(sh * ol + oh * sl) \/ Lost(sl * ol) \/ Lost(ml * LimbSize)
                \/ Lost(sh * oh + mh + (IF carry THEN 1 ELSE 0))
                \/ first.lost \/ Lost(red),
                carry, first.v)

\* impl From<Fp> for u128: the canonical value
to_u128(x) ==
    LET red == reduce_once(x)
    IN IF red = P THEN 0 ELSE red

\* Equality on the raw representation.
eq_raw(x, y) == x = y

\* impl PartialEq for Fp
eq(x, y) == to_u128(x) = to_u128(y)

\* Fp::from_u127 without the assertion: the representation is the argument
from_u127(x) == x

\* from_u128_discard_msb that keeps the top bit.
from_u128_keep_msb(x) == from_u127(x)

\* Fp::from_u128_discard_msb (and Rand for Fp, which hands it a random word)
from_u128_discard_msb(x) == from_u127(and_P(x))

\* The internal representations of the consistent elements
FpReps == 0 .. P

\* The values of the backing word
Words == 0 .. (WordSize - 1)

Bool(b) == IF b THEN 1 ELSE 0

FpCall(op, a, b) == [op |-> op, a |-> a, b |-> b]

FpInit ==
    /\ fp_call = FpCall("-", 0, 0)
    /\ fp_out = FpResult(0, FALSE, FALSE, 0)
    /\ fp_panic = FALSE

\* Field elements are values: every operation is applied to operands that
\* are given, and returns a new element
NoFpCall == fp_call.op = "-"

neg_step(a) ==
    /\ NoFpCall
    /\ fp_call' = FpCall("neg", a, 0)
    /\ fp_out' = neg(a)
    /\ fp_panic' = FALSE
    /\ UNCHANGED <<rsmvars, chanvars, runvars, execvars, histvars, xorvars, codecvars, solvervars, peervars, rngvars>>

add_step(a, b) ==
    /\ NoFpCall
    /\ fp_call' = FpCall("add", a, b)
    /\ fp_out' = add(a, b)
    /\ fp_panic' = FALSE
    /\ UNCHANGED <<rsmvars, chanvars, runvars, execvars, histvars, xorvars, codecvars, solvervars, peervars, rngvars>>

sub_step(a, b) ==
    /\ NoFpCall
    /\ fp_call' = FpCall("sub", a, b)
    /\ fp_out' = sub(a, b)
    /\ fp_panic' = FALSE
    /\ UNCHANGED <<rsmvars, chanvars, runvars, execvars, histvars, xorvars, codecvars, solvervars, peervars, rngvars>>

mul_step(a, b) ==
    /\ NoFpCall
    /\ fp_call' = FpCall("mul", a, b)
    /\ fp_out' = mul(a, b)
    /\ fp_panic' = FALSE
    /\ UNCHANGED <<rsmvars, chanvars, runvars, execvars, histvars, xorvars, codecvars, solvervars, peervars, rngvars>>

\* u128::from(x)
into_step(a) ==
    /\ NoFpCall
    /\ fp_call' = FpCall("into", a, 0)
    /\ fp_out' = FpResult(to_u128(a), Lost(reduce_once(a)), FALSE, reduce_once(a))
    /\ fp_panic' = FALSE
    /\ UNCHANGED <<rsmvars, chanvars, runvars, execvars, histvars, xorvars, codecvars, solvervars, peervars, rngvars>>

\* a == b
eq_step(a, b) ==
    /\ NoFpCall
    /\ fp_call' = FpCall("eq", a, b)
    /\ fp_out' = FpResult(Bool(eq(a, b)), FALSE, FALSE, Bool(eq(a, b)))
    /\ fp_panic' = FALSE
    /\ UNCHANGED <<rsmvars, chanvars, runvars, execvars, histvars, xorvars, codecvars, solvervars, peervars, rngvars>>

\* Fp::from_u127(x) in a debug build (b = 1) or a release build (b = 0):
\* debug_assert!(x <= P) is compiled into debug builds only
from_u127_step(x, debug) ==
    /\ NoFpCall
    /\ fp_call' = FpCall("from_u127", x, Bool(debug))
    /\ fp_out' = FpResult(from_u127(x), FALSE, FALSE, x)
    /\ fp_panic' = (debug /\ ~(x <= P))
    /\ UNCHANGED <<rsmvars, chanvars, runvars, execvars, histvars, xorvars, codecvars, solvervars, peervars, rngvars>>

\* Fp::from_u128_discard_msb(x); the assertion in from_u127 cannot fail
from_u128_discard_msb_step(x) ==
    /\ NoFpCall
    /\ fp_call' = FpCall("from_u128_discard_msb", x, 0)
    /\ fp_out' = FpResult(from_u128_discard_msb(x), FALSE, FALSE, and_P(x))
    /\ fp_panic' = FALSE
    /\ UNCHANGED <<rsmvars, chanvars, runvars, execvars, histvars, xorvars, codecvars, solvervars, peervars, rngvars>>

FpInto == NoFpCall /\ \E a \in FpReps : into_step(a)
FpEq   == NoFpCall /\ \E a, b \in FpReps : eq_step(a, b)
FpFromU127 == NoFpCall /\ \E x \in Words, debug \in BOOLEAN : from_u127_step(x, debug)
FpFromU128 == NoFpCall /\ \E x \in Words : from_u128_discard_msb_step(x)
FpNeg == NoFpCall /\ \E a \in FpReps : neg_step(a)
FpAdd == NoFpCall /\ \E a, b \in FpReps : add_step(a, b)
FpSub == NoFpCall /\ \E a, b \in FpReps : sub_step(a, b)
FpMul == NoFpCall /\ \E a, b \in FpReps : mul_step(a, b)

----------------------------------------------------------------------------
(* XOR vectors: src/src/dc/xor.rs                                          *)

\* Bounds of the model
XorBits   == 1      \* bits of an element of a vector (8 in XorVec<u8>)
MaxVecLen == 2      \* longest vector

XorElems == 0 .. (2 ^ XorBits - 1)
XorVecs  == UNION {[1 .. n -> XorElems] : n \in 0 .. MaxVecLen}

Min(m, n) == IF m <= n THEN m ELSE n

\* | on elements in place of ^.
RECURSIVE bitor_u8(_, _)
bitor_u8(x, y) ==
    IF x = 0 /\ y = 0 THEN 0
    ELSE (IF (x % 2) + (y % 2) > 0 THEN 1 ELSE 0) + 2 * bitor_u8(x \div 2, y \div 2)

\* T::bitxor on the elements: ^ bit by bit
RECURSIVE bitxor_u8(_, _)
bitxor_u8(x, y) ==
    IF x = 0 /\ y = 0 THEN 0
    ELSE (((x % 2) + (y % 2)) % 2) + 2 * bitxor_u8(x \div 2, y \div 2)

\* What an operation on vectors gives: the vector (the result of an
\* operation by value, self after an operation in place) and whether
\* debug_assert_eq! on the lengths failed
XorResult(v, panic) == [v |-> v, panic |-> panic]

\* impl BitXor for XorVec: zip ends with the shorter vector
bitxor(self, rhs, debug) ==
    IF debug /\ Len(self) # Len(rhs) THEN XorResult(self, TRUE)
    ELSE XorResult([i \in 1 .. Min(Len(self), Len(rhs)) |-> bitxor_u8(self[i], rhs[i])],
                   FALSE)

\* bitxor_assign whose closure works on copies of the elements.
bitxor_assign_on_copies(self, rhs, debug) ==
    XorResult(self, debug /\ Len(self) # Len(rhs))

\* impl BitXorAssign for XorVec: the closure updates the elements of self
\* that zip pairs with one of rhs; the collected vector is dropped
bitxor_assign(self, rhs, debug) ==
    IF debug /\ Len(self) # Len(rhs) THEN XorResult(self, TRUE)
    ELSE XorResult([i \in 1 .. Len(self) |->
                      IF i <= Len(rhs) THEN bitxor_u8(self[i], rhs[i]) ELSE self[i]],
                   FALSE)

\* impl Add, Sub, AddAssign, SubAssign, Neg for XorVec
xor_add(self, rhs, debug)        == bitxor(self, rhs, debug)
xor_sub(self, rhs, debug)        == bitxor(self, rhs, debug)
add_assign(self, rhs, debug) == bitxor_assign(self, rhs, debug)
sub_assign(self, rhs, debug) == bitxor_assign(self, rhs, debug)
xor_neg(self) == XorResult(self, FALSE)

XorCall(op, a, b) == [op |-> op, a |-> a, b |-> b]

XorInit ==
    /\ xor_call = XorCall("-", <<>>, <<>>)
    /\ xor_out = XorResult(<<>>, FALSE)

\* Vectors are values: every operation is applied to vectors that are given
NoXorCall == xor_call.op = "-"

bitxor_step(a, b, debug) ==
    /\ NoXorCall
    /\ xor_call' = XorCall("bitxor", a, b)
    /\ xor_out' = bitxor(a, b, debug)
    /\ UNCHANGED <<rsmvars, chanvars, runvars, execvars, histvars, fpvars, codecvars, solvervars, peervars, rngvars>>

bitxor_assign_step(a, b, debug) ==
    /\ NoXorCall
    /\ xor_call' = XorCall("bitxor_assign", a, b)
    /\ xor_out' = bitxor_assign(a, b, debug)
    /\ UNCHANGED <<rsmvars, chanvars, runvars, execvars, histvars, fpvars, codecvars, solvervars, peervars, rngvars>>

add_vec_step(a, b, debug) ==
    /\ NoXorCall
    /\ xor_call' = XorCall("add", a, b)
    /\ xor_out' = xor_add(a, b, debug)
    /\ UNCHANGED <<rsmvars, chanvars, runvars, execvars, histvars, fpvars, codecvars, solvervars, peervars, rngvars>>

add_assign_step(a, b, debug) ==
    /\ NoXorCall
    /\ xor_call' = XorCall("add_assign", a, b)
    /\ xor_out' = add_assign(a, b, debug)
    /\ UNCHANGED <<rsmvars, chanvars, runvars, execvars, histvars, fpvars, codecvars, solvervars, peervars, rngvars>>

sub_vec_step(a, b, debug) ==
    /\ NoXorCall
    /\ xor_call' = XorCall("sub", a, b)
    /\ xor_out' = xor_sub(a, b, debug)
    /\ UNCHANGED <<rsmvars, chanvars, runvars, execvars, histvars, fpvars, codecvars, solvervars, peervars, rngvars>>

sub_assign_step(a, b, debug) ==
    /\ NoXorCall
    /\ xor_call' = XorCall("sub_assign", a, b)
    /\ xor_out' = sub_assign(a, b, debug)
    /\ UNCHANGED <<rsmvars, chanvars, runvars, execvars, histvars, fpvars, codecvars, solvervars, peervars, rngvars>>

neg_vec_step(a) ==
    /\ NoXorCall
    /\ xor_call' = XorCall("neg", a, <<>>)
    /\ xor_out' = xor_neg(a)
    /\ UNCHANGED <<rsmvars, chanvars, runvars, execvars, histvars, fpvars, codecvars, solvervars, peervars, rngvars>>

XorBitXor       == NoXorCall /\ \E a, b \in XorVecs, debug \in BOOLEAN : bitxor_step(a, b, debug)
XorBitXorAssign == NoXorCall /\ \E a, b \in XorVecs, debug \in BOOLEAN : bitxor_assign_step(a, b, debug)
XorAdd          == NoXorCall /\ \E a, b \in XorVecs, debug \in BOOLEAN : add_vec_step(a, b, debug)
XorAddAssign    == NoXorCall /\ \E a, b \in XorVecs, debug \in BOOLEAN : add_assign_step(a, b, debug)
XorSub          == NoXorCall /\ \E a, b \in XorVecs, debug \in BOOLEAN : sub_vec_step(a, b, debug)
XorSubAssign    == NoXorCall /\ \E a, b \in XorVecs, debug \in BOOLEAN : sub_assign_step(a, b, debug)
XorNeg          == NoXorCall /\ \E a \in XorVecs : neg_vec_step(a)

----------------------------------------------------------------------------
(* The wire codec: src/src/messages.rs                                     *)

\* Bound of the model
MaxEncoded == 2     \* most messages encoded into the buffer and not decoded

\* const MAGIC and the lengths of the fields
MAGIC     == <<104, 30, 88, 18>>
MAGIC_LEN == 4
SIG_LEN   == 64
PK_LEN    == 33

\* Signatures and public keys as the library holds them, and their compact
\* serializations: a value is written as the bytes from which the library
\* parses that value again; every other byte string fails to parse
CodecSigs == {1, 171}
CodecKeys == {2, 5}
serialize_compact(sig) == [i \in 1 .. SIG_LEN |-> IF i = 1 THEN sig ELSE 171]
serialize_vec(pk)      == [i \in 1 .. PK_LEN |-> IF i = PK_LEN THEN pk ELSE 2]

Parsed(v)  == [ok |-> TRUE, v |-> v]
Unparsed   == [ok |-> FALSE, v |-> 0]

\* Signature::from_compact on the bytes of a signature field
sig_from_compact(bytes) ==
    IF \E s \in CodecSigs : bytes = serialize_compact(s)
    THEN Parsed(CHOOSE s \in CodecSigs : bytes = serialize_compact(s))
    ELSE Unparsed

\* PublicKey::from_slice
from_slice(bytes) ==
    IF \E k \in CodecKeys : bytes = serialize_vec(k)
    THEN Parsed(CHOOSE k \in CodecKeys : bytes = serialize_vec(k))
    ELSE Unparsed

\* messages::Payload as the codec sees it, and messages::Message
KeyExchangeOf(sig, pk) == [variant |-> "KeyExchange", signature |-> sig, ke_pk |-> pk]
OtherPayload(variant)  == [variant |-> variant, signature |-> 0, ke_pk |-> 0]
WireMessage(ver, pay)  == [protocol_version |-> ver, payload |-> pay]
NoWireMessage          == WireMessage(-1, OtherPayload("-"))

ProtocolVersions == {0, 1}
KeyExchangeMessages ==
    {WireMessage(ver, KeyExchangeOf(s, k)) :
        ver \in ProtocolVersions, s \in CodecSigs, k \in CodecKeys}
OtherMessages == {WireMessage(0, OtherPayload("Confirm"))}

\* What a decode function returns: Ok(None), Err(_) or Ok(Some((v, rest)))
DecNone          == [kind |-> "None", v |-> NoWireMessage, rest |-> <<>>, err |-> "-"]
DecErr(e)        == [kind |-> "Err", v |-> NoWireMessage, rest |-> <<>>, err |-> e]
DecSome(v, rest) == [kind |-> "Some", v |-> v, rest |-> rest, err |-> "-"]

\* buf.split_at(n) on a slice of at least n bytes
Front(buf, n) == SubSeq(buf, 1, n)
Back(buf, n)  == SubSeq(buf, n + 1, Len(buf))

\* KeyExchange::decode
KeyExchange_decode(buf) ==
    IF Len(buf) < SIG_LEN + PK_LEN THEN DecNone
    ELSE LET signature == sig_from_compact(Front(buf, SIG_LEN))
             buf1      == Back(buf, SIG_LEN)
             ke_pk     == from_slice(Front(buf1, PK_LEN))
             buf2      == Back(buf1, PK_LEN)
         IN IF ~signature.ok THEN DecErr("Signature parsing failed")
            ELSE IF ~ke_pk.ok THEN DecErr("Public key parsing failed")
            ELSE DecSome(WireMessage(-1, KeyExchangeOf(signature.v, ke_pk.v)), buf2)

\* Payload::decode
Payload_decode(buf) ==
    IF Len(buf) < 1 THEN DecNone
    ELSE IF buf[1] = 0 THEN KeyExchange_decode(Back(buf, 1))
    ELSE DecErr("Unknown payload variant")

\* Header::decode: the protocol version, carried in a message without payload
Header_decode(buf) ==
    IF Len(buf) < 1 THEN DecNone
    ELSE DecSome(WireMessage(buf[1], OtherPayload("-")), Back(buf, 1))

\* Message::decode
Message_decode(buf) ==
    IF Len(buf) < MAGIC_LEN THEN DecNone
    ELSE IF Front(buf, MAGIC_LEN) # MAGIC THEN DecErr("Wrong magic bytes")
    ELSE LET header == Header_decode(Back(buf, MAGIC_LEN)) IN
         IF header.kind # "Some" THEN header
         ELSE LET payload == Payload_decode(header.rest) IN
              IF payload.kind # "Some" THEN payload
              ELSE DecSome(WireMessage(header.v.protocol_version, payload.v.payload),
                           payload.rest)

\* KeyExchange::encode that writes the key before the signature.
KeyExchange_encode_key_first(pay) ==
    <<0>> \o serialize_vec(pay.ke_pk) \o serialize_compact(pay.signature)

\* KeyExchange::encode: the bytes it appends
KeyExchange_encode(pay) ==
    <<0>> \o serialize_compact(pay.signature) \o serialize_vec(pay.ke_pk)

\* Message::encode: the bytes it appends, or a panic for the payloads whose
\* encoding is unimplemented!()
Message_encode(msg) ==
    IF msg.payload.variant = "KeyExchange"
    THEN [ok |-> TRUE,
          bytes |-> MAGIC \o <<msg.protocol_version>> \o KeyExchange_encode(msg.payload)]
    ELSE [ok |-> FALSE, bytes |-> MAGIC \o <<msg.protocol_version>>]

\* What MessageCodec::decode gives: the buffer as it leaves it and its result
CodecResult(buf, kind, msg, err) == [buf |-> buf, kind |-> kind, msg |-> msg, err |-> err]

\* MessageCodec::decode that drops a buffer it cannot decode yet.
codec_decode_dropping(buf) ==
    LET r == Message_decode(buf) IN
    IF r.kind = "Some"
    THEN CodecResult(Back(buf, Len(buf) - Len(r.rest)), "Some", r.v, "-")
    ELSE CodecResult(<<>>, r.kind, NoWireMessage, r.err)

\* MessageCodec::decode
codec_decode(buf) ==
    LET r == Message_decode(buf) IN
    IF r.kind = "Some"
    THEN LET consumed == Len(buf) - Len(r.rest)
         IN CodecResult(Back(buf, consumed), "Some", r.v, "-")
    ELSE CodecResult(buf, r.kind, NoWireMessage, r.err)

\* The bytes of an encoded KeyExchange message
Encoded(msg) == Message_encode(msg).bytes

\* The buffers the network can leave: encoded messages cut short or whole,
\* one message followed by the start of the next, and altered bytes
Altered(buf, i, b) == [buf EXCEPT ![i] = b]
CutBuffers ==
    {Front(Encoded(m), n) : m \in KeyExchangeMessages,
                            n \in 0 .. (MAGIC_LEN + 2 + SIG_LEN + PK_LEN)}
FollowedBuffers ==
    {Encoded(m) \o Front(Encoded(m), n) : m \in KeyExchangeMessages,
                                          n \in {1, MAGIC_LEN, MAGIC_LEN + 2 + SIG_LEN}}
AlteredBuffers ==
    {<<0, 0, 0, 0>>, <<0>>}
      \cup {Altered(Front(Encoded(m), n), i, 4) :
              m \in KeyExchangeMessages,
              n \in {MAGIC_LEN, MAGIC_LEN + 2 + SIG_LEN + PK_LEN},
              i \in 1 .. MAGIC_LEN}
      \cup {Altered(Encoded(m), i, 4) :
              m \in KeyExchangeMessages,
              i \in {MAGIC_LEN + 2, MAGIC_LEN + 3, MAGIC_LEN + 2 + SIG_LEN + PK_LEN}}
CodecBuffers == CutBuffers \cup FollowedBuffers \cup AlteredBuffers

NoCodecCall == [op |-> "-", msg |-> NoWireMessage]
CodecAlive  == codec_out.kind # "Panic"

\* A MessageCodec and an empty BytesMut
CodecInit ==
    /\ codec_buf = <<>>
    /\ codec_sent = <<>>
    /\ codec_fed = FALSE
    /\ codec_call = NoCodecCall
    /\ codec_out = CodecResult(<<>>, "-", NoWireMessage, "-")

\* The network fills the empty buffer
feed_step(bytes) ==
    /\ codec_call = NoCodecCall
    /\ codec_buf' = bytes
    /\ codec_fed' = TRUE
    /\ codec_call' = [op |-> "feed", msg |-> NoWireMessage]
    /\ codec_out' = CodecResult(bytes, "-", NoWireMessage, "-")
    /\ UNCHANGED codec_sent
    /\ UNCHANGED <<rsmvars, chanvars, runvars, execvars, histvars, fpvars, xorvars, solvervars, peervars, rngvars>>

\* MessageCodec::encode(msg, buf)
encode_step(msg) ==
    /\ CodecAlive /\ ~codec_fed /\ Len(codec_sent) < MaxEncoded
    /\ LET r == Message_encode(msg) IN
         /\ codec_buf' = codec_buf \o r.bytes
         /\ codec_out' = CodecResult(codec_buf \o r.bytes,
                                     IF r.ok THEN "Ok" ELSE "Panic", NoWireMessage, "-")
    /\ codec_sent' = Append(codec_sent, msg)
    /\ codec_call' = [op |-> "encode", msg |-> msg]
    /\ UNCHANGED codec_fed
    /\ UNCHANGED <<rsmvars, chanvars, runvars, execvars, histvars, fpvars, xorvars, solvervars, peervars, rngvars>>

\* MessageCodec::decode(buf)
decode_step ==
    /\ CodecAlive
    /\ LET r == codec_decode(codec_buf) IN
         /\ codec_buf' = r.buf
         /\ codec_out' = r
         /\ codec_sent' = IF r.kind = "Some" /\ codec_sent # <<>>
                          THEN Tail(codec_sent) ELSE codec_sent
    /\ codec_call' = [op |-> "decode", msg |-> NoWireMessage]
    /\ UNCHANGED codec_fed
    /\ UNCHANGED <<rsmvars, chanvars, runvars, execvars, histvars, fpvars, xorvars, solvervars, peervars, rngvars>>

CodecFeed   == codec_call = NoCodecCall /\ \E bytes \in CodecBuffers : feed_step(bytes)
CodecEncode == CodecAlive /\ \E msg \in KeyExchangeMessages \cup OtherMessages : encode_step(msg)
CodecDecode == decode_step

----------------------------------------------------------------------------
(* Power-sum solver: src/src/solver/solver_flint/mod.rs                    *)

MaxSolve == 3       \* largest number of power sums handed to solve

RET_OK      == 0
RET_INVALID == 1

\* The digits of format!("{:X}", num): base 16, most significant first, no
\* leading zeros, "0" for zero.
RECURSIVE hex_c_str(_)
hex_c_str(num) ==
    IF num < 16 THEN <<num>> ELSE Append(hex_c_str(num \div 16), num % 16)

\* u128::from_str_radix(s, radix): an error on the empty string and on a
\* digit the radix does not have.
RECURSIVE radix_value(_, _)
radix_value(s, radix) ==
    IF s = <<>> THEN 0
    ELSE radix_value(SubSeq(s, 1, Len(s) - 1), radix) * radix + s[Len(s)]

from_str_radix(s, radix) ==
    IF s = <<>> \/ \E i \in 1 .. Len(s) : s[i] >= radix
    THEN [ok |-> FALSE, v |-> 0]
    ELSE [ok |-> TRUE, v |-> radix_value(s, radix)]

\* The result strings read as decimal numbers.
parse_hex_as_decimal(s) == from_str_radix(s, 10)

\* u128::from_str_radix(rust_string, 16)
parse_hex(s) == from_str_radix(s, 16)

\* Arithmetic modulo the prime the solver is handed as prime_hex.
ModP(x) == ((x % P) + P) % P
InvModP(k) == CHOOSE i \in 1 .. (P - 1) : (i * k) % P = 1

\* Newton's identities: the elementary symmetric values e_1 .. e_k of the
\* unknowns from their power sums p_1 .. p_k,
\*   k e_k = sum over i = 1..k of (-1)^(i-1) e_(k-i) p_i,   e_0 = 1.
RECURSIVE NewtonSum(_, _, _, _)
NewtonSum(e, p, k, i) ==
    IF i > k THEN 0
    ELSE LET prev == IF k = i THEN 1 ELSE e[k - i]
             term == ModP(prev * p[i])
         IN ModP((IF i % 2 = 1 THEN term ELSE 0 - term) + NewtonSum(e, p, k, i + 1))

RECURSIVE Elementary(_, _)
Elementary(p, k) ==
    IF k = 0 THEN <<>>
    ELSE LET e == Elementary(p, k - 1)
         IN Append(e, ModP(InvModP(k) * NewtonSum(e, p, k, 1)))

\* The polynomial with the unknowns as roots, leading coefficient first:
\* x^n - e_1 x^(n-1) + e_2 x^(n-2) - ...
Polynomial(p) ==
    LET e == Elementary(p, Len(p))
    IN <<1>> \o [k \in 1 .. Len(p) |-> ModP(IF k % 2 = 1 THEN 0 - e[k] ELSE e[k])]

\* Horner's scheme: the coefficients of poly / (x - r) followed by the
\* remainder poly(r).
RECURSIVE Horner(_, _)
Horner(poly, r) ==
    IF Len(poly) = 1 THEN poly
    ELSE LET h == Horner(SubSeq(poly, 1, Len(poly) - 1), r)
         IN Append(h, ModP(h[Len(h)] * r + poly[Len(poly)]))

\* The roots of poly in the field with their multiplicities, in ascending
\* order; the polynomial splits when there are as many as its degree.
RootsOf(poly) == {r \in 0 .. (P - 1) : Horner(poly, r)[Len(poly)] = 0}

RECURSIVE Roots(_)
Roots(poly) ==
    LET rs == RootsOf(poly)
    IN IF Len(poly) = 1 \/ rs = {} THEN <<>>
       ELSE LET r == CHOOSE x \in rs : \A y \in rs : x <= y
            IN <<r>> \o Roots(SubSeq(Horner(poly, r), 1, Len(poly) - 1))

\* ffi::solve: the messages as hex strings and RET_OK when the polynomial
\* of the power sums splits into linear factors over the field, and
\* RET_INVALID when it does not.
ffi_solve(prime_hex, power_sums_hex) ==
    LET p     == [i \in 1 .. Len(power_sums_hex) |-> ModP(parse_hex(power_sums_hex[i]).v)]
        roots == Roots(Polynomial(p))
    IN IF Len(roots) = Len(p)
       THEN [ret |-> RET_OK, out_messages_hex |-> [i \in 1 .. Len(p) |-> hex_c_str(roots[i])]]
       ELSE [ret |-> RET_INVALID, out_messages_hex |-> <<>>]

SolveSome(v) == [kind |-> "Some", v |-> v]
SolveNone    == [kind |-> "None", v |-> <<>>]
SolvePanic   == [kind |-> "panic", v |-> <<>>]

\* impl Solve for Solver: fn solve
solve(power_sums) ==
    LET prime_hex      == hex_c_str(P)
        power_sums_hex == [i \in 1 .. Len(power_sums) |-> hex_c_str(to_u128(power_sums[i]))]
        res            == ffi_solve(prime_hex, power_sums_hex)
        parsed         == [i \in 1 .. Len(res.out_messages_hex) |-> parse_hex(res.out_messages_hex[i])]
    IN IF res.ret = RET_OK
       THEN IF \A i \in 1 .. Len(parsed) : parsed[i].ok
            THEN SolveSome([i \in 1 .. Len(parsed) |-> from_u127(parsed[i].v)])
            ELSE SolvePanic
       ELSE IF res.ret = RET_INVALID THEN SolveNone ELSE SolvePanic

\* The power sums p_k = x_1^k + ... + x_n^k, k = 1 .. n, in Fp arithmetic.
RECURSIVE FpPower(_, _)
FpPower(x, k) == IF k = 1 THEN x ELSE mul(FpPower(x, k - 1), x).v

RECURSIVE FpSum(_)
FpSum(s) == IF Len(s) = 1 THEN s[1] ELSE add(FpSum(SubSeq(s, 1, Len(s) - 1)), s[Len(s)]).v

PowerSums(values) ==
    [k \in 1 .. Len(values) |-> FpSum([i \in 1 .. Len(values) |-> FpPower(values[i], k)])]

\* The field elements the solver is tried on: both ends of the range of
\* representations, P being the second representation of zero.
SolverValues == {0, 1, 2, 3, P - 2, P - 1, P}

\* The multisets of 1 .. MaxSolve of them, each as its ascending sequence.
Multisets ==
    {s \in UNION {[1 .. n -> SolverValues] : n \in 1 .. MaxSolve} :
        \A i \in 1 .. (Len(s) - 1) : s[i] <= s[i + 1]}

\* Sequences of field elements that need not be the power sums of anything.
RawSums == UNION {[1 .. n -> {0, 1, 2, P - 1}] : n \in 1 .. MaxSolve}

SolverCall(op, values, power_sums) ==
    [op |-> op, values |-> values, power_sums |-> power_sums]

NoSolverCall == solver_call.op = "-"

SolverInit ==
    /\ solver_call = SolverCall("-", <<>>, <<>>)
    /\ solver_out = SolveNone

\* The power sums of a multiset are computed and solved.
round_trip_step(values) ==
    /\ solver_call' = SolverCall("round_trip", values, PowerSums(values))
    /\ solver_out' = solve(PowerSums(values))
    /\ UNCHANGED <<rsmvars, chanvars, runvars, execvars, histvars, fpvars, xorvars, codecvars, peervars, rngvars>>

\* solve is called on a sequence of field elements.
solve_step(power_sums) ==
    /\ solver_call' = SolverCall("solve", <<>>, power_sums)
    /\ solver_out' = solve(power_sums)
    /\ UNCHANGED <<rsmvars, chanvars, runvars, execvars, histvars, fpvars, xorvars, codecvars, peervars, rngvars>>

SolveRoundTrip == NoSolverCall /\ \E values \in Multisets : round_trip_step(values)
SolveRaw       == NoSolverCall /\ \E power_sums \in RawSums : solve_step(power_sums)

----------------------------------------------------------------------------
(* A peer and its next ephemeral key: src/src/state/peer.rs                *)

MaxPeerCalls == 6   \* calls on a Peer that complete, Peer::new included

PeerKeys == {"kepk1", "kepk2", "kepk3"}

PeerResult(kepk, ok, ret) == [next_kepk |-> kepk, ok |-> ok, ret |-> ret]

\* A push_kepk that takes a key whether or not one is pending.
push_kepk_unchecked(self, kepk) == PeerResult(kepk, TRUE, None)

\* Peer::push_kepk
push_kepk(self, kepk) ==
    IF self = None THEN PeerResult(kepk, TRUE, None)
    ELSE PeerResult(self, FALSE, None)      \* assert!(self.next_kepk.is_none())

\* A pop_kepk that returns the key and leaves it pending.
pop_kepk_keeping(self) ==
    IF self = None THEN PeerResult(self, FALSE, None)
    ELSE PeerResult(self, TRUE, self)

\* Peer::pop_kepk
pop_kepk(self) ==
    IF self = None THEN PeerResult(self, FALSE, None)   \* unwrap() of None
    ELSE PeerResult(None, TRUE, self)

PeerCall(op, kepk, outcome, ret) ==
    [op |-> op, kepk |-> kepk, outcome |-> outcome, ret |-> ret]

PeerAlive == peer_call.outcome = "ok"

PeerInit ==
    /\ next_kepk = None
    /\ peer_log = <<>>
    /\ peer_call = PeerCall("-", None, "-", None)

Outcome(ok) == IF ok THEN "ok" ELSE "panic"
Logged(log, op, kepk, ok) == IF ok THEN Append(log, [op |-> op, kepk |-> kepk]) ELSE log

\* Peer::new
peer_new_step(kepk) ==
    /\ next_kepk' = kepk
    /\ peer_log' = <<[op |-> "new", kepk |-> kepk]>>
    /\ peer_call' = PeerCall("new", kepk, "ok", None)
    /\ UNCHANGED <<rsmvars, chanvars, runvars, execvars, histvars, fpvars, xorvars, codecvars, solvervars, rngvars>>

push_kepk_step(kepk) ==
    /\ LET r == push_kepk(next_kepk, kepk) IN
         /\ next_kepk' = r.next_kepk
         /\ peer_log' = Logged(peer_log, "push_kepk", kepk, r.ok)
         /\ peer_call' = PeerCall("push_kepk", kepk, Outcome(r.ok), r.ret)
    /\ UNCHANGED <<rsmvars, chanvars, runvars, execvars, histvars, fpvars, xorvars, codecvars, solvervars, rngvars>>

pop_kepk_step ==
    /\ LET r == pop_kepk(next_kepk) IN
         /\ next_kepk' = r.next_kepk
         /\ peer_log' = Logged(peer_log, "pop_kepk", None, r.ok)
         /\ peer_call' = PeerCall("pop_kepk", None, Outcome(r.ok), r.ret)
    /\ UNCHANGED <<rsmvars, chanvars, runvars, execvars, histvars, fpvars, xorvars, codecvars, solvervars, rngvars>>

PeerNew  == peer_call.op = "-" /\ \E kepk \in PeerKeys : peer_new_step(kepk)
PushKepk == PeerAlive /\ Len(peer_log) < MaxPeerCalls /\ \E kepk \in PeerKeys : push_kepk_step(kepk)
PopKepk  == PeerAlive /\ Len(peer_log) < MaxPeerCalls /\ pop_kepk_step

----------------------------------------------------------------------------
(* The pad generator: src/src/rng.rs                                       *)

MaxRound == 1       \* largest round a generator is prepared for
MaxDraws == 2       \* calls that draw from a generator after it is prepared
FillLen  == 5       \* bytes asked of fill_bytes: one word and part of a second

RngKeys   == {"key1", "key2"}
Instances == {1, 2}
Rounds    == 0 .. MaxRound

\* ChaChaRng: the key, the stream (nonce) and the position, in 32-bit
\* words, in the stream.
ChaCha(key, stream, word_pos) == [key |-> key, stream |-> stream, word_pos |-> word_pos]
Unseeded == ChaCha("-", 0, 0)

\* ChaChaRng::from_seed: stream 0, position 0
from_seed(key) == ChaCha(key, 0, 0)

\* ChaChaRng::set_word_pos and ChaChaRng::set_stream
set_word_pos(chacha, word_offset) == [chacha EXCEPT !.word_pos = word_offset]
set_stream(chacha, stream) == [chacha EXCEPT !.stream = stream]

\* The word of the key stream at a position: a value that the key, the
\* stream and the position determine, and that differs when one differs.
Word(chacha, i) == <<chacha.key, chacha.stream, chacha.word_pos + i>>
WordsFor(n) == (n + 3) \div 4

\* A prepare_round that leaves the position where it is.
prepare_round_keeping_pos(self, round) == set_stream(self, round)

\* DiceMixRng::prepare_round
prepare_round(self, round) == set_stream(set_word_pos(self, 1), round)

\* DiceMixRng::new
DiceMixRng_new(key) == prepare_round(from_seed(key), 0)

Drawn(chacha, n, value) == [rng |-> set_word_pos(chacha, chacha.word_pos + n), out |-> value]

\* impl RngCore for DiceMixRng: the next word, the next two words as low
\* and high half, the bytes of the next words in order
next_u32(self) == Drawn(self, 1, <<Word(self, 0)>>)
next_u64(self) == Drawn(self, 2, <<Word(self, 0), Word(self, 1)>>)
fill_bytes(self, len) ==
    Drawn(self, WordsFor(len), [b \in 1 .. len |-> <<Word(self, (b - 1) \div 4), (b - 1) % 4>>])
try_fill_bytes(self, len) == fill_bytes(self, len)

RngInit ==
    /\ rng = [i \in Instances |-> Unseeded]
    /\ rng_round = [i \in Instances |-> 0]
    /\ rng_calls = [i \in Instances |-> <<>>]
    /\ rng_outs = [i \in Instances |-> <<>>]

Seeded(i) == rng[i] # Unseeded
MayDraw(i) == Seeded(i) /\ Len(rng_calls[i]) < MaxDraws

rng_new_step(i, key) ==
    /\ rng' = [rng EXCEPT ![i] = DiceMixRng_new(key)]
    /\ rng_round' = [rng_round EXCEPT ![i] = 0]
    /\ rng_calls' = [rng_calls EXCEPT ![i] = <<>>]
    /\ rng_outs' = [rng_outs EXCEPT ![i] = <<>>]
    /\ UNCHANGED <<rsmvars, chanvars, runvars, execvars, histvars, fpvars, xorvars, codecvars, solvervars, peervars>>

prepare_round_step(i, round) ==
    /\ rng' = [rng EXCEPT ![i] = prepare_round(rng[i], round)]
    /\ rng_round' = [rng_round EXCEPT ![i] = round]
    /\ rng_calls' = [rng_calls EXCEPT ![i] = <<>>]
    /\ rng_outs' = [rng_outs EXCEPT ![i] = <<>>]
    /\ UNCHANGED <<rsmvars, chanvars, runvars, execvars, histvars, fpvars, xorvars, codecvars, solvervars, peervars>>

next_u32_step(i) ==
    /\ rng' = [rng EXCEPT ![i] = next_u32(rng[i]).rng]
    /\ rng_calls' = [rng_calls EXCEPT ![i] = Append(@, "next_u32")]
    /\ rng_outs' = [rng_outs EXCEPT ![i] = Append(@, next_u32(rng[i]).out)]
    /\ UNCHANGED rng_round
    /\ UNCHANGED <<rsmvars, chanvars, runvars, execvars, histvars, fpvars, xorvars, codecvars, solvervars, peervars>>

next_u64_step(i) ==
    /\ rng' = [rng EXCEPT ![i] = next_u64(rng[i]).rng]
    /\ rng_calls' = [rng_calls EXCEPT ![i] = Append(@, "next_u64")]
    /\ rng_outs' = [rng_outs EXCEPT ![i] = Append(@, next_u64(rng[i]).out)]
    /\ UNCHANGED rng_round
    /\ UNCHANGED <<rsmvars, chanvars, runvars, execvars, histvars, fpvars, xorvars, codecvars, solvervars, peervars>>

fill_bytes_step(i) ==
    /\ rng' = [rng EXCEPT ![i] = fill_bytes(rng[i], FillLen).rng]
    /\ rng_calls' = [rng_calls EXCEPT ![i] = Append(@, "fill_bytes")]
    /\ rng_outs' = [rng_outs EXCEPT ![i] = Append(@, fill_bytes(rng[i], FillLen).out)]
    /\ UNCHANGED rng_round
    /\ UNCHANGED <<rsmvars, chanvars, runvars, execvars, histvars, fpvars, xorvars, codecvars, solvervars, peervars>>

try_fill_bytes_step(i) ==
    /\ rng' = [rng EXCEPT ![i] = try_fill_bytes(rng[i], FillLen).rng]
    /\ rng_calls' = [rng_calls EXCEPT ![i] = Append(@, "try_fill_bytes")]
    /\ rng_outs' = [rng_outs EXCEPT ![i] = Append(@, try_fill_bytes(rng[i], FillLen).out)]
    /\ UNCHANGED rng_round
    /\ UNCHANGED <<rsmvars, chanvars, runvars, execvars, histvars, fpvars, xorvars, codecvars, solvervars, peervars>>

RngNew          == \E i \in Instances : ~Seeded(i) /\ \E key \in RngKeys : rng_new_step(i, key)
RngPrepareRound == \E i \in Instances : Seeded(i) /\ \E round \in Rounds : prepare_round_step(i, round)
RngNextU32      == \E i \in Instances : MayDraw(i) /\ next_u32_step(i)
RngNextU64      == \E i \in Instances : MayDraw(i) /\ next_u64_step(i)
RngFillBytes    == \E i \in Instances : MayDraw(i) /\ fill_bytes_step(i)
RngTryFillBytes == \E i \in Instances : MayDraw(i) /\ try_fill_bytes_step(i)

----------------------------------------------------------------------------
(* Specifications                                                          *)

Init == RsmInit /\ ChanInit /\ HistInit /\ FpInit /\ XorInit /\ CodecInit /\ SolverInit /\ PeerInit /\ RngInit

RsmNext  == SetState \/ ApplyIncoming \/ NewRun
ExecNext == DriveState \/ DriveItem \/ DriveExclude \/ DriveConfirm
ChanNext == advance_round \/ PollStream
HistNext == RecordPayload
FpNext   == FpNeg \/ FpAdd \/ FpSub \/ FpMul \/ FpInto \/ FpEq \/ FpFromU127 \/ FpFromU128
XorNext  == XorBitXor \/ XorBitXorAssign \/ XorAdd \/ XorAddAssign \/ XorSub \/ XorSubAssign \/ XorNeg
CodecNext == CodecFeed \/ CodecEncode \/ CodecDecode
SolverNext == SolveRoundTrip \/ SolveRaw
PeerNext == PeerNew \/ PushKepk \/ PopKepk
RngNext  == RngNew \/ RngPrepareRound \/ RngNextU32 \/ RngNextU64 \/ RngFillBytes \/ RngTryFillBytes
Next     == RsmNext \/ ExecNext \/ ChanNext \/ HistNext \/ FpNext \/ XorNext \/ CodecNext \/ SolverNext \/ PeerNext \/ RngNext

Spec     == Init /\ [][Next]_vars
SpecRsm  == Init /\ [][RsmNext]_vars
SpecChan == Init /\ [][ChanNext]_vars
SpecHist == Init /\ [][HistNext]_vars
SpecExec == Init /\ [][ExecNext]_vars
SpecFp   == Init /\ [][FpNext]_vars
SpecXor  == Init /\ [][XorNext]_vars
SpecCodec == Init /\ [][CodecNext]_vars
SpecSolver == Init /\ [][SolverNext]_vars
SpecPeer == Init /\ [][PeerNext]_vars
SpecRng  == Init /\ [][RngNext]_vars

----------------------------------------------------------------------------
(* Properties of the run state machine                                     *)

\* The order of the run states as the protocol lists them: the four DC
\* states in sequence, then Blame and Confirm side by side.
Rank(x) ==
    CASE x = DcProcess(Exponential) -> 1
      [] x = DcReveal(Exponential)  -> 2
      [] x = DcProcess(Main)        -> 3
      [] x = DcReveal(Main)         -> 4
      [] x \in {Blame, Confirm}     -> 5

StrictlyFollows(current, s) == Rank(current) < Rank(s)

WasIn(x) == \E i \in 1 .. Len(visited) : visited[i] = x

FullPath ==
    <<DcProcess(Exponential), DcReveal(Exponential), DcProcess(Main), DcReveal(Main),
      Confirm>>

\* C1: set_state(s) succeeds, and then makes s the state, only when s
\* strictly follows the current state in the order DcProcess(Exponential) <
\* DcReveal(Exponential) < DcProcess(Main) < DcReveal(Main) < {Blame, Confirm};
\* every other call, Blame -> Confirm and Confirm -> Blame among them, fails
\* its assertion and leaves the state as it was.
C1_SetStateStrictlyForward ==
    [][rsm_call'.op = "set_state" =>
         IF StrictlyFollows(state, rsm_call'.arg)
         THEN rsm_call'.outcome = "ok" /\ state' = rsm_call'.arg
         ELSE rsm_call'.outcome = "panic" /\ state' = state]_rsmvars

\* C1 witness: Blame -> Confirm was asked for and rejected.
C1_Witness ==
    /\ rsm_call = [op |-> "set_state", arg |-> Confirm, outcome |-> "panic"]
    /\ state = Blame

\* C2: Blame and Confirm are mutually exclusive: a run that has been in
\* Confirm is never in Blame and a run that has been in Blame is never in
\* Confirm.
C2_BlameConfirmExclusive ==
    /\ WasIn(Confirm) => state # Blame
    /\ WasIn(Blame) => state # Confirm
    /\ ~(WasIn(Blame) /\ WasIn(Confirm))

\* C2 witness: a run in Confirm was asked to move to Blame.
C2_Witness ==
    /\ WasIn(Confirm)
    /\ rsm_call = [op |-> "set_state", arg |-> Blame, outcome |-> "panic"]

\* C3 as stated: a run in Confirm has been, in this order, in all four DC
\* states; no permitted sequence of transitions skips a phase.
C3_ConfirmAfterEveryPhase ==
    state = Confirm => visited = FullPath

\* C3 as amended: a run in Confirm started in DcProcess(Exponential), moved
\* strictly forward in the order of the states at every step and was never
\* in Blame; the phases in between may have been skipped.
C3_ConfirmOnlyForward ==
    state = Confirm =>
        /\ visited[1] = DcProcess(Exponential)
        /\ visited[Len(visited)] = Confirm
        /\ \A i \in 1 .. (Len(visited) - 1) :
              /\ StrictlyFollows(visited[i], visited[i + 1])
              /\ visited[i] \in {DcProcess(p) : p \in DcPhase} \cup {DcReveal(p) : p \in DcPhase}

\* C3 witness: Confirm reached, the main phase having been skipped.
C3_Witness ==
    /\ state = Confirm
    /\ visited = <<DcProcess(Exponential), DcReveal(Exponential), Confirm>>

----------------------------------------------------------------------------
(* Properties of the authenticated channel                                 *)

Polled      == chan_op = "poll"
PolledItem  == Polled /\ inner_item.kind = "Item"
EmitsValid(o)   == o.kind = "Item" /\ o.valid
EmitsInvalid(o) == o.kind = "Item" /\ ~o.valid

\* The header of the frame last delivered matches the channel and the
\* index the frame was delivered under.
HeaderMatches ==
    /\ inner_item.bytes.msg.wellformed
    /\ inner_item.bytes.msg.msg.session_id = session_id
    /\ inner_item.bytes.msg.msg.sequence_num = sequence_num
    /\ inner_item.bytes.msg.msg.peer_index = inner_item.peer

\* The signature of the frame last delivered verifies, under the key of the
\* delivering peer, against the digest of the prefix and the whole frame.
SignatureVerifies ==
    /\ inner_item.bytes.sig.wellformed
    /\ inner_item.peer \in DOMAIN ltvks
    /\ inner_item.bytes.sig.signer = ltvks[inner_item.peer]
    /\ inner_item.bytes.sig.signed =
          [magic |-> 1, data |-> <<MsgPart(inner_item.bytes.msg), SigPart>>]

AllChecksPass ==
    /\ inner_item.bytes.len >= COMPACT_SIGNATURE_SIZE
    /\ HeaderMatches
    /\ SignatureVerifies

\* C4: for every item read, the channel emits (peer_index, Valid(payload))
\* if and only if the frame is signature-sized, message and signature
\* deserialize, session id, sequence number and peer index match and the
\* signature verifies under that peer's key; in every other case it emits
\* (peer_index, Invalid).
C4_ValidIffAllChecksPass ==
    PolledItem =>
        out = IF AllChecksPass
              THEN Valid(inner_item.peer, inner_item.bytes.msg.msg.payload)
              ELSE Invalid(inner_item.peer)

\* C5 as stated: emitting Valid advances the expected sequence number by
\* exactly one.
C5_ValidAdvancesSequenceNum ==
    [][(chan_op' = "poll" /\ EmitsValid(out')) =>
          sequence_num' = sequence_num + 1]_chanvars

\* C5 as amended: a poll, also one that emits Valid, leaves the expected
\* sequence number (one number for all peers) as it is, and every message
\* emitted as Valid carries that number; only advance_round advances it,
\* by exactly one.
C5_OnlyAdvanceRoundAdvances ==
    [][/\ chan_op' = "poll" => sequence_num' = sequence_num
       /\ (chan_op' = "poll" /\ EmitsValid(out')) =>
             inner_item'.bytes.msg.msg.sequence_num = sequence_num
       /\ chan_op' = "advance_round" => sequence_num' = sequence_num + 1]_chanvars

\* C5 witness: a message accepted in the round after the first.
C5_Witness ==
    Polled /\ EmitsValid(out) /\ sequence_num = 1

\* C29: the expected sequence number starts at 0, is one number for all
\* peers and is the number of advance_round calls so far, however many
\* items were polled in between; a message is emitted as Valid only if its
\* header carries that number.
C29_SequenceNumCountsRounds ==
    /\ chan_op = "new" => sequence_num = 0
    /\ sequence_num = advances
    /\ \A i \in PeerIndices :
         (Polled /\ EmitsValid(out) /\ out.peer = i) =>
            inner_item.bytes.msg.msg.sequence_num = advances

\* C29 witness: a frame turned down before advance_round was called is
\* emitted as Valid by the poll after the call.
C29_Witness ==
    /\ Polled /\ EmitsValid(out)
    /\ advances = 1
    /\ redelivery.is /\ redelivery.advanced
    /\ redelivery.first = Invalid(out.peer)

\* C6 as stated: of two deliveries in a row of the same frame under the same
\* peer index, the first emitted as Valid, the second is emitted as Invalid.
C6_SecondDeliveryInvalid ==
    (Polled /\ redelivery.is /\ EmitsValid(redelivery.first)) => EmitsInvalid(out)

\* C6 as amended: the second delivery has the outcome of the first (Valid
\* again for an accepted frame) unless advance_round was called in between;
\* then a frame that was Valid is Invalid.
C6_RedeliveryRepeatsOutcome ==
    (Polled /\ redelivery.is) =>
        IF redelivery.advanced
        THEN EmitsValid(redelivery.first) => out = Invalid(inner_item.peer)
        ELSE out = redelivery.first

\* C6 witness: an accepted frame, delivered again after advance_round.
C6_Witness ==
    /\ Polled /\ redelivery.is /\ redelivery.advanced
    /\ EmitsValid(redelivery.first)

\* C7: a poll that reports Invalid leaves the expected sequence number, the
\* session id and the keys unchanged.
C7_InvalidLeavesChannelUnchanged ==
    [][(chan_op' = "poll" /\ EmitsInvalid(out')) =>
          /\ sequence_num' = sequence_num
          /\ session_id' = session_id
          /\ ltvks' = ltvks]_chanvars

\* C7 witness: a frame whose signature verifies but whose sequence number is
\* not the expected one was reported Invalid.
C7_Witness ==
    /\ PolledItem /\ EmitsInvalid(out)
    /\ SignatureVerifies
    /\ inner_item.bytes.msg.msg.sequence_num # sequence_num
    /\ inner_item.bytes.msg.msg.session_id = session_id
    /\ inner_item.bytes.msg.msg.peer_index = inner_item.peer

\* C8: the digest is over the prefix followed by exactly the header and
\* payload bytes, so a frame whose signature peer i made over that digest,
\* with matching session id, sequence number and peer index, is Valid.
C8_SignedOverHeaderAndPayload ==
    ( /\ PolledItem
      /\ inner_item.bytes.len >= COMPACT_SIGNATURE_SIZE
      /\ HeaderMatches
      /\ inner_item.peer \in DOMAIN ltvks
      /\ inner_item.bytes.sig =
            Signature(ltvks[inner_item.peer],
                      result(input(new_prefixed_hasher, SignedRange(inner_item.bytes)))) )
    => out = Valid(inner_item.peer, inner_item.bytes.msg.msg.payload)

\* C33: the hasher for signed messages has absorbed the magic prefix twice,
\* one block of 64 bytes, before the first message byte: the signature of
\* every message emitted as Valid is over a digest that starts with the
\* prefix twice.  The code does not do this: the loop of new_prefixed_hasher
\* runs once.
C33_PrefixAbsorbedTwice ==
    /\ new_prefixed_hasher.data = <<>>
    /\ (PolledItem /\ EmitsValid(out)) => inner_item.bytes.sig.signed.magic = 2

\* C9: an item delivered under a peer index without a verification key is
\* reported as (peer_index, Invalid) and never makes the channel fail.
C9_UnknownPeerIsInvalid ==
    (PolledItem /\ inner_item.peer \notin DOMAIN ltvks) =>
        out = Invalid(inner_item.peer)

\* C10: an I/O error of the inner stream is returned as that error, its end
\* and its not being ready are reported as such, and none of them yields an
\* item; an error is returned only for an I/O error and an item only for an
\* item read.
C10_TransportAndMessageFailuresApart ==
    Polled =>
        /\ inner_item.kind = "Err" => out = Err(inner_item.err)
        /\ inner_item.kind = "None" => out = ReadyNone
        /\ inner_item.kind = "NotReady" => out = NotReady
        /\ out.kind = "Err" => inner_item.kind = "Err"
        /\ out.kind = "Item" => inner_item.kind = "Item" /\ out.peer = inner_item.peer

\* C10 witness: an I/O error of the inner stream came through in the second round.
C10_Witness ==
    /\ Polled /\ out = Err("BrokenPipe")
    /\ sequence_num = 1

----------------------------------------------------------------------------
(* Properties of the run: items, histories, new runs                       *)

\* The fields of a run that has nothing of an earlier run
EmptyHistory(h) ==
    /\ h.dc_exponential = None
    /\ h.dc_xor = None
    /\ h.dc_add_secp256k1_scalar = None
    /\ \A i \in DOMAIN h.revealed_symmetric_keys : h.revealed_symmetric_keys[i] = None

\* C11: in each round at most one message per peer is accepted by the run:
\* the call on the first item of a peer returns with the peer recorded as
\* having responded, and the call on a second item of the same peer returns
\* with the state, the received set, the histories and the keys of the run
\* exactly as they were.  The code does not do this: the call panics.
C11_OneItemPerPeerPerRound ==
    [][\A item \in RunItems :
         apply(item) =>
           /\ rsm_call'.outcome = "ok"
           /\ IF item.peer \in received
              THEN UNCHANGED <<state, received, histories, kepks>>
              ELSE received' = received \cup {item.peer}]_vars

\* C12: a Valid payload of a variant that the current state does not expect
\* leaves the run as the Invalid item of the same peer leaves it, the
\* history of the peer included.  The code does not do this: the payload is
\* recorded in the history before the variant is looked at.
C12_UnexpectedVariantAsInvalid ==
    [][\A item \in RunItems :
         (apply(item) /\ item.valid /\ match_arm(state, item) = "_") =>
           LET inv == apply_incoming_message(RunFields, InvalidItem(item.peer),
                                             debug_assertions)
           IN /\ received' = inv.received
              /\ histories' = inv.histories
              /\ rsm_call'.outcome = inv.outcome]_vars

\* C13: no single item aborts the session: apply_incoming_message returns
\* normally whatever the run state and the item.  The code does not do
\* this: every arm of the match is unimplemented!().
C13_NoItemAborts ==
    rsm_call.op = "apply_incoming_message" => rsm_call.outcome = "ok"

\* C14: after any sequence of record_payload calls that complete, a
\* main-phase contribution (dc_xor or dc_add_secp256k1_scalar) is present in
\* the history only if the exponential contribution is present.
C14_MainOnlyAfterExponential ==
    HistAlive =>
      ((history.dc_xor # None \/ history.dc_add_secp256k1_scalar # None)
         => history.dc_exponential # None)

C14_Witness ==
    /\ hist_call.payload.variant = "DcXor" /\ hist_call.outcome = "ok"
    /\ history.dc_xor # None /\ history.dc_exponential # None

\* C15: a key recorded for a peer index is never replaced: whatever payload
\* is recorded next, the recorded key stays, and a Reveal that names an
\* index with a recorded key is turned down with the call returning.  The
\* code does not do this: VecMap::insert stores the second key before the
\* assertion on the replaced one fails.
C15_RevealedKeyNeverReplaced ==
    [][\A payload \in RunPayloads :
         record(payload) =>
           /\ hist_call'.outcome = "ok"
           /\ \A i \in RevealIndices :
                history.revealed_symmetric_keys[i] # None =>
                  history'.revealed_symmetric_keys[i]
                    = history.revealed_symmetric_keys[i]]_vars

\* The peer indices a Reveal names.
RevealedBy(payload) == {payload.keys[n][1] : n \in 1 .. Len(payload.keys)}

\* The payload is the next one of a peer that follows the protocol, the
\* history holding what the peer sent before: DcExponential first, then the
\* Reveal of the exponential phase, then DcXor, then the Reveal of the main
\* phase; a Reveal names each peer once and none whose key is recorded.
InProtocolOrder(h, payload) ==
    LET fresh_keys ==
          /\ \A m, n \in 1 .. Len(payload.keys) :
               payload.keys[m][1] = payload.keys[n][1] => m = n
          /\ \A i \in RevealedBy(payload) : h.revealed_symmetric_keys[i] = None
    IN CASE payload.variant = "DcExponential" -> EmptyHistory(h)
         [] payload.variant = "Reveal" ->
              /\ h.dc_exponential # None
              /\ fresh_keys
              /\ is_empty(h.revealed_symmetric_keys) <=> h.dc_xor = None
         [] payload.variant = "DcXor" ->
              /\ h.dc_exponential # None
              /\ h.dc_xor = None
              /\ ~is_empty(h.revealed_symmetric_keys)
         [] OTHER -> FALSE

\* C28: a peer that follows the protocol order never trips the history
\* checks: each record_payload of its payloads, in the order DcExponential,
\* Reveal, DcXor, Reveal from the fresh history on, returns and leaves the
\* history consistent.  The code does not do this: the first call, of the
\* DcExponential payload, fails the assertion on consistent().
C28_ProtocolOrderNeverTrips ==
    [][\A payload \in RunPayloads :
         (record(payload) /\ InProtocolOrder(history, payload)) =>
           /\ hist_call'.outcome = "ok"
           /\ consistent(history')]_vars

\* C17: after RunStateMachine::new returns, the run is in
\* DcProcess(Exponential), no peer has responded, and exactly the peers with
\* an ephemeral key have a history, which is empty.
C17_NewRunFromScratch ==
    (rsm_call.op = "new" /\ rsm_call.outcome = "ok") =>
      /\ state = DcProcess(Exponential)
      /\ received = {}
      /\ DOMAIN histories = DOMAIN kepks
      /\ \A i \in DOMAIN kepks :
           /\ histories[i].some <=> kepks[i] # None
           /\ histories[i].some => EmptyHistory(histories[i].v)

C17_Witness ==
    /\ rsm_call.op = "new" /\ rsm_call.outcome = "ok"
    /\ count > 0
    /\ \E i, j \in DOMAIN kepks :
         /\ kepks[i] = None /\ ~histories[i].some
         /\ kepks[j] # None /\ histories[j].some

\* C16: when the roster changes, exactly one peer of it, the excluded one,
\* has left it while the run was in Blame, and, two or more peers being
\* left, the run is replaced by a new run over exactly the peers left.
C16_ExclusionStartsNewRun ==
    [][roster' # roster =>
         \E p \in roster :
           /\ state = Blame
           /\ roster' = roster \ {p}
           /\ exec_call' = [op |-> "exclude", peer |-> p]
           /\ Cardinality(roster') >= 2 =>
                /\ rsm_call' = [op |-> "new", arg |-> NoArg, outcome |-> "ok"]
                /\ count' = count + 1
                /\ state' = DcProcess(Exponential)
                /\ visited' = <<DcProcess(Exponential)>>
                /\ received' = {}
                /\ \A i \in RunPeers :
                     /\ kepks'[i] # None <=> i \in roster'
                     /\ histories'[i].some <=> i \in roster'
                     /\ histories'[i].some => EmptyHistory(histories'[i].v)]_vars

C16_Witness ==
    /\ exec_call.op = "exclude" /\ exec_call.peer \notin roster
    /\ Cardinality(roster) = 2 /\ NumRunPeers = 3
    /\ rsm_call.op = "new" /\ count = 1 /\ session = "running"

\* C18: an exclusion that leaves fewer than two peers ends the session with
\* InsufficientParticipants and starts no run, and nothing happens to the
\* run or the roster of a session that ended so.
C18_InsufficientParticipants ==
    [][/\ (roster' # roster /\ Cardinality(roster') < 2) =>
            /\ session' = "InsufficientParticipants"
            /\ UNCHANGED <<rsmvars, runvars>>
       /\ session = "InsufficientParticipants" =>
            UNCHANGED <<session, roster, rsmvars, runvars>>]_vars

C18_Witness ==
    /\ session = "InsufficientParticipants"
    /\ Cardinality(roster) = 1
    /\ exec_call.op = "exclude"

----------------------------------------------------------------------------
(* Properties of the field                                                 *)

Called(op) == fp_call.op = op
Arithmetic == fp_call.op \in {"neg", "add", "sub", "mul"}

\* C19: for operands whose representation is in [0, P], the representation
\* of -a, a + b, a - b and a * b is in [0, P], and no intermediate value of
\* the operation loses bits except for the carry that multiplication takes
\* from overflowing_add.
C19_FieldRange ==
    Arithmetic =>
      /\ fp_call.a \in 0 .. P /\ fp_call.b \in 0 .. P
      /\ fp_out.v \in 0 .. P
      /\ ~fp_out.lost
      /\ fp_out.carry => Called("mul")

C19_Witness ==
    /\ Called("mul") /\ fp_out.carry
    /\ fp_call.a = P /\ fp_call.b = P - 1
    /\ fp_out.v \in 0 .. P /\ ~fp_out.lost

\* C20: the canonical values of a + b, a - b and a * b are (a + b) mod P,
\* (a - b) mod P and (a * b) mod P, also for the products that are still
\* above P after the first reduction.
C20_FieldIsModular ==
    /\ Called("add") => to_u128(fp_out.v) = (fp_call.a + fp_call.b) % P
    /\ Called("sub") => to_u128(fp_out.v) = (fp_call.a + P - fp_call.b) % P
    /\ Called("mul") => to_u128(fp_out.v) = (fp_call.a * fp_call.b) % P
    /\ Called("neg") => to_u128(fp_out.v) = (P - fp_call.a) % P

C20_Witness ==
    /\ Called("mul") /\ fp_out.first > P
    /\ fp_out.v <= P
    /\ to_u128(fp_out.v) = (fp_call.a * fp_call.b) % P

\* C21: under the equality of the field, for all elements a, b, c (both
\* representations of zero included): a + b == b + a,
\* (a + b) + c == a + (b + c), a + (-a) == 0 and
\* a * (b + c) == a * b + a * c.
C21_FieldLaws ==
    LET a == fp_call.a
        b == fp_call.b
    IN /\ Called("add") =>
            /\ eq(fp_out.v, add(b, a).v)
            /\ \A c \in FpReps :
                 eq(add(fp_out.v, c).v, add(a, add(b, c).v).v)
       /\ Called("neg") =>
            /\ eq(add(a, fp_out.v).v, 0)
            /\ eq(add(a, fp_out.v).v, P)
       /\ Called("mul") =>
            \A c \in FpReps :
              eq(mul(a, add(b, c).v).v, add(fp_out.v, mul(a, c).v).v)

C21_Witness ==
    /\ Called("mul") /\ fp_call.a = P - 1 /\ fp_call.b = P
    /\ \A c \in FpReps :
         eq(mul(fp_call.a, add(fp_call.b, c).v).v,
            add(fp_out.v, mul(fp_call.a, c).v).v)

\* C22: the conversion to the external integer returns a value in [0, P),
\* returns v itself for the element of every v < P and 0 for the
\* representations 0 and P; two elements are equal exactly when they are
\* the same residue modulo P, so Fp(0) == Fp(P).
C22_CanonicalForm ==
    /\ Called("into") =>
         /\ fp_out.v \in 0 .. (P - 1)
         /\ fp_call.a < P => fp_out.v = fp_call.a
         /\ fp_call.a \in {0, P} => fp_out.v = 0
    /\ Called("eq") =>
         /\ fp_out.v = 1 <=> to_u128(fp_call.a) = to_u128(fp_call.b)
         /\ fp_out.v = 1 <=> fp_call.a % P = fp_call.b % P

C22_Witness ==
    Called("eq") /\ fp_call.a = 0 /\ fp_call.b = P /\ fp_out.v = 1

\* C23 as claimed: for every word x the constructor returns, and returns an
\* element whose representation is in [0, P] and which is x modulo P.
C23_ConstructorReducesModP ==
    (Called("from_u127") \/ Called("from_u128_discard_msb")) =>
      /\ ~fp_panic
      /\ fp_out.v \in 0 .. P
      /\ to_u128(fp_out.v) = fp_call.a % P

\* C23: from_u128_discard_msb returns for every word x, and the element has
\* the representation x without its top bit, which is in [0, P] and is x
\* itself when x <= P; from_u127 keeps x as the representation, which is in
\* [0, P] exactly when x <= P, and panics in a debug build when x > P.
C23_ConstructorDiscardsTopBit ==
    /\ Called("from_u128_discard_msb") =>
         /\ ~fp_panic
         /\ fp_out.v \in 0 .. P
         /\ fp_out.v = fp_call.a % (P + 1)
         /\ fp_call.a <= P => fp_out.v = fp_call.a
    /\ Called("from_u127") =>
         /\ fp_out.v = fp_call.a
         /\ fp_panic <=> (fp_call.b = 1 /\ fp_call.a > P)

C23_Witness ==
    /\ Called("from_u128_discard_msb") /\ fp_call.a = P + 1
    /\ fp_out.v = 0 /\ fp_call.a % P = 1

----------------------------------------------------------------------------
(* Properties of the XOR vectors                                           *)

XorCalled(op) == xor_call.op = op
EqualLength   == Len(xor_call.a) = Len(xor_call.b)
ZeroVec(n)    == [i \in 1 .. n |-> 0]

\* C24: for vectors of equal length, combining is commutative, combining a
\* vector with itself gives the all-zero vector of its length, and the
\* inverse of a vector is the vector, so that subtracting is adding.
C24_XorGroupLaws ==
    LET a == xor_call.a
        b == xor_call.b
    IN /\ ((XorCalled("bitxor") \/ XorCalled("add") \/ XorCalled("sub"))
             /\ EqualLength) =>
            /\ ~xor_out.panic
            /\ \A debug \in BOOLEAN :
                 /\ xor_out = bitxor(b, a, debug)
                 /\ xor_out = xor_add(a, xor_neg(b).v, debug)
                 /\ xor_out = xor_sub(a, b, debug)
            /\ a = b => xor_out.v = ZeroVec(Len(a))
       /\ XorCalled("neg") => xor_out.v = a /\ ~xor_out.panic

C24_Witness ==
    /\ XorCalled("add") /\ EqualLength /\ Len(xor_call.a) = MaxVecLen
    /\ xor_call.a = xor_call.b /\ xor_call.a # ZeroVec(MaxVecLen)
    /\ xor_out.v = ZeroVec(MaxVecLen)

\* C30: for vectors a and b of equal length, after a += b, a ^= b or a -= b
\* the vector a has its length, holds old a[i] ^ b[i] at every index, and
\* equals a + b.
C30_InPlaceAgreesWithByValue ==
    LET a == xor_call.a
        b == xor_call.b
    IN ((XorCalled("bitxor_assign") \/ XorCalled("add_assign")
           \/ XorCalled("sub_assign")) /\ EqualLength) =>
         /\ ~xor_out.panic
         /\ Len(xor_out.v) = Len(a)
         /\ \A i \in 1 .. Len(a) : xor_out.v[i] = bitxor_u8(a[i], b[i])
         /\ \A debug \in BOOLEAN : xor_out = xor_add(a, b, debug)

C30_Witness ==
    /\ XorCalled("add_assign") /\ EqualLength /\ Len(xor_call.a) = MaxVecLen
    /\ xor_out.v # xor_call.a
    /\ xor_out.v[1] = bitxor_u8(xor_call.a[1], xor_call.b[1])

----------------------------------------------------------------------------
(* Properties of the wire codec                                            *)

\* buf is a proper prefix of whole
StrictPrefix(buf, whole) ==
    Len(buf) < Len(whole) /\ buf = SubSeq(whole, 1, Len(buf))

\* The length of an encoded KeyExchange message
KeyExchangeLen == MAGIC_LEN + 1 + 1 + SIG_LEN + PK_LEN

\* C25: with nothing but encoded KeyExchange messages in the buffer, decode
\* returns the message encoded first and takes exactly its bytes off the
\* buffer, so that successive calls return the messages in the order of
\* their encoding and leave the buffer empty.
C25_CodecRoundTrip ==
    [][(decode_step /\ ~codec_fed /\ codec_sent # <<>>) =>
         /\ codec_out'.kind = "Some"
         /\ codec_out'.msg = Head(codec_sent)
         /\ Len(codec_buf') = Len(codec_buf) - KeyExchangeLen
         /\ codec_buf = Message_encode(Head(codec_sent)).bytes \o codec_buf'
         /\ codec_sent' = <<>> => codec_buf' = <<>>]_vars

C25_Witness ==
    /\ ~codec_fed /\ codec_call.op = "decode" /\ codec_out.kind = "Some"
    /\ codec_sent = <<>> /\ codec_buf = <<>>
    /\ codec_out.msg \in KeyExchangeMessages
    /\ codec_out.msg.payload.ke_pk = 5 /\ codec_out.msg.protocol_version = 1

\* C26: decode on a proper prefix of an encoded KeyExchange message returns
\* Ok(None) and leaves the buffer as it is; when it returns a message it
\* has taken exactly the bytes of that message off the front of the buffer;
\* on a buffer whose first four bytes are not the magic it returns an error.
C26_DecodeFrameEffect ==
    [][decode_step =>
         /\ (\E m \in KeyExchangeMessages :
               StrictPrefix(codec_buf, MAGIC \o <<m.protocol_version, 0>>
                                        \o serialize_compact(m.payload.signature)
                                        \o serialize_vec(m.payload.ke_pk))) =>
              (codec_out'.kind = "None" /\ codec_buf' = codec_buf)
         /\ codec_out'.kind = "Some" =>
              /\ Len(codec_buf) >= KeyExchangeLen
              /\ codec_buf' = SubSeq(codec_buf, KeyExchangeLen + 1, Len(codec_buf))
         /\ (Len(codec_buf) >= 4 /\ SubSeq(codec_buf, 1, 4) # <<104, 30, 88, 18>>) =>
              codec_out'.kind = "Err"]_vars

C26_Witness ==
    /\ codec_fed /\ codec_call.op = "decode"
    /\ codec_out.kind = "None"
    /\ Len(codec_buf) = KeyExchangeLen - 1

----------------------------------------------------------------------------
(* Properties of the power-sum solver                                      *)

\* How often the field element c occurs in the sequence s.
Occurrences(s, c) == Cardinality({i \in 1 .. Len(s) : to_u128(s[i]) = c})

SameMultiset(s, t) ==
    /\ Len(s) = Len(t)
    /\ \A c \in 0 .. (P - 1) : Occurrences(s, c) = Occurrences(t, c)

SameElements(s, t) ==
    /\ Len(s) = Len(t)
    /\ \A i \in 1 .. Len(s) : eq(s[i], t[i])

\* C27: the power sums of a multiset of n field elements, handed to solve,
\* give Some(values) with the same multiset of values, in any order; what
\* solve returns as Some has the power sums it was handed; and solve
\* returns None only for sums that are the power sums of no multiset.
C27_SolverRoundTrip ==
    /\ solver_call.op = "round_trip" =>
        /\ solver_out.kind = "Some"
        /\ SameMultiset(solver_out.v, solver_call.values)
    /\ solver_call.op = "solve" /\ solver_out.kind = "Some" =>
        SameElements(PowerSums(solver_out.v), solver_call.power_sums)
    /\ solver_call.op = "solve" /\ solver_out.kind = "None" =>
        \A values \in Multisets :
            Len(values) = Len(solver_call.power_sums) =>
                ~SameElements(PowerSums(values), solver_call.power_sums)

\* The power sums of a multiset of the largest size in which a value occurs
\* twice, one of them as the second representation of zero, were solved.
C27_Witness ==
    /\ solver_call.op = "round_trip"
    /\ Len(solver_call.values) = MaxSolve
    /\ solver_call.values[1] = solver_call.values[2]
    /\ solver_call.values[MaxSolve] = P
    /\ solver_out.kind = "Some"

----------------------------------------------------------------------------
(* Properties of the peer's key hand-over                                  *)

\* The key of the last Peer::new or push_kepk that completed.
RECURSIVE LastStored(_)
LastStored(log) ==
    IF log = <<>> THEN None
    ELSE IF log[Len(log)].op \in {"new", "push_kepk"} THEN log[Len(log)].kepk
    ELSE LastStored(SubSeq(log, 1, Len(log) - 1))

\* C31: a Peer holds at most one pending key.  push_kepk completes exactly
\* when no key is pending and stores its key; pop_kepk completes exactly
\* when one is pending, returns the key stored last and leaves none; so
\* the calls that complete alternate, a pop after Peer::new or a push, a
\* push after a pop.
C31_OnePendingKey ==
    [][/\ peer_call'.op = "push_kepk" =>
            /\ peer_call'.outcome = "ok" <=> next_kepk = None
            /\ peer_call'.outcome = "ok" => next_kepk' = peer_call'.kepk
       /\ peer_call'.op = "pop_kepk" =>
            /\ peer_call'.outcome = "ok" <=> next_kepk # None
            /\ peer_call'.outcome = "ok" =>
                 /\ peer_call'.ret = LastStored(peer_log)
                 /\ peer_call'.ret # None
                 /\ next_kepk' = None
       /\ (peer_call'.outcome = "ok" /\ peer_call.op \in {"new", "push_kepk"}) =>
            peer_call'.op = "pop_kepk"
       /\ (peer_call'.outcome = "ok" /\ peer_call.op = "pop_kepk") =>
            peer_call'.op = "push_kepk"]_vars

\* The key of a second push was popped: new, pop, push, pop.
C31_Witness ==
    /\ peer_call.op = "pop_kepk" /\ peer_call.outcome = "ok"
    /\ Len(peer_log) = 4
    /\ peer_call.ret = peer_log[3].kepk
    /\ peer_call.ret # peer_log[1].kepk
    /\ next_kepk = None

----------------------------------------------------------------------------
(* Properties of the pad generator                                         *)

\* Both generators have the same key and were prepared for the same round
\* last, a new one counting as prepared for round 0.
SamePads(i, j) ==
    /\ Seeded(i) /\ Seeded(j)
    /\ rng[i].key = rng[j].key
    /\ rng_round[i] = rng_round[j]

\* C32: the pads are determined by the key and the round.  Two generators
\* made from the same key and prepared for the same round last (a new one
\* behaving as one prepared for round 0, a generator prepared again
\* starting anew) have produced the same output, call for call, as far as
\* the same calls were made on them since, whatever each had produced
\* before it was prepared.
C32_PadsDeterminedByKeyAndRound ==
    \A i, j \in Instances :
      SamePads(i, j) =>
        \A n \in 1 .. Min(Len(rng_calls[i]), Len(rng_calls[j])) :
          SubSeq(rng_calls[i], 1, n) = SubSeq(rng_calls[j], 1, n) =>
            rng_outs[i][n] = rng_outs[j][n]

\* Two generators of the same key, both prepared again for round 1, have
\* produced the same two outputs, the last of them by fill_bytes.
C32_Witness ==
    /\ SamePads(1, 2)
    /\ rng_round[1] = 1
    /\ Len(rng_calls[1]) = 2
    /\ rng_calls[1] = rng_calls[2]
    /\ rng_calls[2][2] = "fill_bytes"
    /\ rng_outs[1] = rng_outs[2]
    /\ rng[1].word_pos > 1

====
